---- MODULE Spec2Model ----
(***************************************************************************)
(* Log analysis pipeline of nwyrwas/weekend-projects (src/log_analyzer):   *)
(* the record model, the four analytical passes of analyzer.py and         *)
(* patterns.py, the format parsers and detector of patterns.py and the     *)
(* parser selection of cli.py; and the URL shortener of src/url_shortener. *)
(*                                                                         *)
(* A timestamp of a record handed to a pass is a number of seconds since   *)
(* an arbitrary midnight, so that datetime subtraction followed by         *)
(* total_seconds() is integer subtraction and strftime('%Y-%m-%d %H:%M')   *)
(* is division by 60.  A message and an input line are sequences of        *)
(* one-character strings; a level is a string.  A parser builds the        *)
(* timestamp of its record from calendar fields, and gives it as the       *)
(* record of these fields.                                                 *)
(***************************************************************************)
EXTENDS Integers, Sequences, FiniteSets, TLC

VARIABLES
    logs,          \* the record sequence the caller hands to the passes
    line,          \* the text line the caller hands to a parser or the detector
    op,            \* the function called last ("none" before the first call)
    args,          \* its arguments other than logs / line
    ret,           \* what it returned (or the exception it raised)
    window,        \* find_error_spikes: the deque `window` as the last call left it
    error_counts,  \* find_repeated_patterns: the dict `error_counts` of the last call
    first,         \* history: the input as first handed over and, per pass and
                   \* argument tuple, the first result returned; for the URL
                   \* shortener, what the calls made so far returned
    logfile,       \* cli.py: the lines of the log file, without their newlines
    self,          \* the URLShortener object: the record of its attributes
    clock,         \* what time.time() returns, in seconds
    data_file      \* the content of the shortener's data file, <<>> while
                   \* there is no file

vars == <<logs, line, op, args, ret, window, error_counts, first,
          logfile, self, clock, data_file>>

----------------------------------------------------------------------------
(* Bounds of the model *)

MaxLen == 4            \* longest record sequence of the exhaustive input sets
MaxThreshold == 4      \* largest threshold / min_occurrences tried
MaxWindowMinutes == 2  \* largest window_minutes tried
MaxFileLines == 2      \* most lines of a log file in SpecCli
MaxClicks == 1         \* most clicks counted for one short code
RateLimitMax == 2      \* the rate_limit_max the caller sets
MaxCalls == 4          \* most shorten and expand calls of a behaviour
MaxPassLen == 2        \* longest sequence over PassEntries in SpecPasses
MantBits == 9          \* significand width of the model's binary floating
                       \* point (53 in the interpreter's float; 9 rounds
                       \* 1/5, 1/3, ... the same way, 53 = 9 mod 4)

----------------------------------------------------------------------------
(* Record model: analyzer.py LogEntry *)

LogEntry(ts, level, message) ==
    [timestamp |-> ts, level |-> level, message |-> message]

Levels == {"ERROR", "WARN", "INFO"}

Range(s) == {s[i] : i \in DOMAIN s}

\* sequences over S of length at most n
SeqUpTo(S, n) == UNION {[1..k -> S] : k \in 0..n}

\* the ordering the passes assume of their input (spec section 3)
Chronological(ls) ==
    \A i \in 1..(Len(ls) - 1) : ls[i].timestamp <= ls[i + 1].timestamp

Digits == {"0", "1", "2", "3", "4", "5", "6", "7", "8", "9"}

----------------------------------------------------------------------------
(* find_error_spikes: analyzer.py 30-52 *)

\* line 34, mutated: the deque is created once and shared by all calls (a
\* module-level or default-argument deque)
NewWindow_Shared == window

\* line 34: window = deque()
NewWindow == <<>>

\* line 45, mutated: an entry exactly window_seconds old is dropped too
Expired_AtBoundary(front, now, window_seconds) == now - front >= window_seconds

\* line 45: (entry.timestamp - window[0]).total_seconds() > window_seconds
Expired(front, now, window_seconds) == now - front > window_seconds

\* line 49, mutated: only the record that first reaches the threshold reports
ThresholdReached_OnsetOnly(size, threshold) == size = threshold

\* line 49: len(window) >= threshold
ThresholdReached(size, threshold) == size >= threshold

\* lines 45-46: while window and ...: window.popleft()
RECURSIVE ShrinkWindow(_, _, _)
ShrinkWindow(w, now, window_seconds) ==
    IF Len(w) > 0 /\ Expired(Head(w), now, window_seconds)
    THEN ShrinkWindow(Tail(w), now, window_seconds)
    ELSE w

\* lines 38-50: the loop over the entries, from entry k on
RECURSIVE SpikeLoop(_, _, _, _, _, _)
SpikeLoop(ls, k, w, spikes, window_seconds, threshold) ==
    IF k > Len(ls) THEN [window |-> w, spikes |-> spikes]
    ELSE IF ls[k].level = "ERROR"
    THEN LET now == ls[k].timestamp
             w2  == ShrinkWindow(Append(w, now), now, window_seconds)
         IN  SpikeLoop(ls, k + 1, w2,
                       IF ThresholdReached(Len(w2), threshold)
                       THEN Append(spikes, <<now, Len(w2)>>)
                       ELSE spikes,
                       window_seconds, threshold)
    ELSE SpikeLoop(ls, k + 1, w, spikes, window_seconds, threshold)

\* the whole function; the result carries the final deque next to the
\* returned list
find_error_spikes(ls, window_minutes, threshold) ==
    SpikeLoop(ls, 1, NewWindow, <<>>, window_minutes * 60, threshold)

----------------------------------------------------------------------------
(* find_repeated_patterns: analyzer.py 55-68 *)

\* line 57: error_counts = {}
NewCounts == <<>>

\* end of the run of digits that starts at position i (greedy \d+)
RECURSIVE DigitRunEnd(_, _)
DigitRunEnd(s, i) ==
    IF i < Len(s) /\ s[i + 1] \in Digits THEN DigitRunEnd(s, i + 1) ELSE i

\* line 63, mutated: \d instead of \d+, one N per digit
RECURSIVE ReSubDigits_PerDigit(_, _, _)
ReSubDigits_PerDigit(s, i, out) ==
    IF i > Len(s) THEN out
    ELSE IF s[i] \in Digits
    THEN ReSubDigits_PerDigit(s, i + 1, Append(out, "N"))
    ELSE ReSubDigits_PerDigit(s, i + 1, Append(out, s[i]))

\* line 63: re.sub(r'\d+', 'N', message), scanning from position i
RECURSIVE ReSubDigits(_, _, _)
ReSubDigits(s, i, out) ==
    IF i > Len(s) THEN out
    ELSE IF s[i] \in Digits
    THEN ReSubDigits(s, DigitRunEnd(s, i) + 1, Append(out, "N"))
    ELSE ReSubDigits(s, i + 1, Append(out, s[i]))

Normalize(message) == ReSubDigits(message, 1, <<>>)

\* line 65: error_counts[normalized] = error_counts.get(normalized, 0) + 1
CountUp(counts, key) ==
    IF key \in DOMAIN counts
    THEN [counts EXCEPT ![key] = @ + 1]
    ELSE [k \in DOMAIN counts \cup {key} |->
            IF k = key THEN 1 ELSE counts[k]]

\* lines 59-65: the loop over the entries, from entry k on
RECURSIVE PatternLoop(_, _, _)
PatternLoop(ls, k, counts) ==
    IF k > Len(ls) THEN counts
    ELSE IF ls[k].level = "ERROR"
    THEN PatternLoop(ls, k + 1, CountUp(counts, Normalize(ls[k].message)))
    ELSE PatternLoop(ls, k + 1, counts)

\* line 68: v >= min_occurrences
EnoughOccurrences(v, min_occurrences) == v >= min_occurrences

\* line 68: {k: v for k, v in error_counts.items() if v >= min_occurrences}
FilterCounts(counts, min_occurrences) ==
    [k \in {x \in DOMAIN counts : EnoughOccurrences(counts[x], min_occurrences)}
       |-> counts[k]]

find_repeated_patterns(ls, min_occurrences) ==
    LET counts == PatternLoop(ls, 1, NewCounts)
    IN  [error_counts |-> counts,
         patterns |-> FilterCounts(counts, min_occurrences)]

----------------------------------------------------------------------------
(* analyze_time_range: analyzer.py 71-93 *)

\* lines 79-80: while left < n and logs[left].timestamp < start: left += 1
\* (positions are 1-based here, 0-based in the source)
RECURSIVE FindLeft(_, _, _)
FindLeft(ls, left, start) ==
    IF left <= Len(ls) /\ ls[left].timestamp < start
    THEN FindLeft(ls, left + 1, start)
    ELSE left

\* line 84, mutated: the end bound is exclusive
WithinEnd_Exclusive(ts, end) == ts < end

\* line 84: logs[right].timestamp <= end
WithinEnd(ts, end) == ts <= end

\* lines 84-85: while right < n and logs[right].timestamp <= end: right += 1
RECURSIVE FindRight(_, _, _)
FindRight(ls, right, end) ==
    IF right <= Len(ls) /\ WithinEnd(ls[right].timestamp, end)
    THEN FindRight(ls, right + 1, end)
    ELSE right

\* sum(1 for l in range_logs if l.level == level)
CountLevel(ls, level) == Cardinality({i \in 1..Len(ls) : ls[i].level = level})

analyze_time_range(ls, start, end) ==
    LET left  == FindLeft(ls, 1, start)
        right == FindRight(ls, left, end)
        range_logs == SubSeq(ls, left, right - 1)
    IN  [total    |-> Len(range_logs),
         errors   |-> CountLevel(range_logs, "ERROR"),
         warnings |-> CountLevel(range_logs, "WARN")]

----------------------------------------------------------------------------
(* Binary floating point.  patterns.py computes rates, means, variances    *)
(* and standard deviations in the interpreter's float type.  A float is    *)
(* [m, e], standing for m * 2^e, with m = 0 or 2^(MantBits-1) <= |m| <     *)
(* 2^MantBits; every operation returns the exact result rounded to the     *)
(* nearest float, ties to even, as IEEE 754 arithmetic does.  Exponents    *)
(* are unbounded: no value of the passes comes near overflow or underflow. *)

RECURSIVE Pow2(_)
Pow2(n) == IF n <= 0 THEN 1 ELSE 2 * Pow2(n - 1)

Abs(n) == IF n < 0 THEN -n ELSE n
Sign(n) == IF n < 0 THEN -1 ELSE IF n > 0 THEN 1 ELSE 0

FZero == [m |-> 0, e |-> 0]

\* num/den * 2^e, scaled so that num \div den has MantBits + 2 bits
RECURSIVE ScaleRatio(_, _, _)
ScaleRatio(num, den, e) ==
    IF num \div den >= Pow2(MantBits + 2) THEN ScaleRatio(num, den * 2, e + 1)
    ELSE IF num \div den < Pow2(MantBits + 1) THEN ScaleRatio(num * 2, den, e - 1)
    ELSE [num |-> num, den |-> den, e |-> e]

\* the float nearest to num/den * 2^e (num, den > 0), ties to even
RoundRatio(num, den, e) ==
    LET s      == ScaleRatio(num, den, e)
        q      == s.num \div s.den
        sticky == (s.num % s.den) # 0
        base   == q \div 4
        low    == q % 4
        up     == low = 3 \/ (low = 2 /\ (sticky \/ base % 2 = 1))
        m      == IF up THEN base + 1 ELSE base
    IN  IF m = Pow2(MantBits)
        THEN [m |-> Pow2(MantBits - 1), e |-> s.e + 3]
        ELSE [m |-> m, e |-> s.e + 2]

FNeg(x) == [m |-> -x.m, e |-> x.e]

\* the float nearest to the rational n/d (d # 0): int / int, and float(n)
FloatOf(n, d) ==
    IF n = 0 THEN FZero
    ELSE LET r == RoundRatio(Abs(n), Abs(d), 0)
         IN  IF Sign(n) * Sign(d) < 0 THEN FNeg(r) ELSE r

FromInt(n) == FloatOf(n, 1)

\* x + y
FAdd(x, y) ==
    IF x.m = 0 THEN y
    ELSE IF y.m = 0 THEN x
    ELSE LET hi == IF x.e >= y.e THEN x ELSE y
             lo == IF x.e >= y.e THEN y ELSE x
         IN  IF hi.e - lo.e > MantBits + 2 THEN hi
             ELSE LET sum == hi.m * Pow2(hi.e - lo.e) + lo.m
                  IN  IF sum = 0 THEN FZero
                      ELSE IF sum < 0 THEN FNeg(RoundRatio(-sum, 1, lo.e))
                      ELSE RoundRatio(sum, 1, lo.e)

\* x - y
FSub(x, y) == FAdd(x, FNeg(y))

\* x * y
FMul(x, y) ==
    IF x.m = 0 \/ y.m = 0 THEN FZero
    ELSE LET r == RoundRatio(Abs(x.m) * Abs(y.m), 1, x.e + y.e)
         IN  IF Sign(x.m) * Sign(y.m) < 0 THEN FNeg(r) ELSE r

\* x / y, y # 0
FDiv(x, y) ==
    IF x.m = 0 THEN FZero
    ELSE LET r == RoundRatio(Abs(x.m), Abs(y.m), x.e - y.e)
         IN  IF Sign(x.m) * Sign(y.m) < 0 THEN FNeg(r) ELSE r

\* x > y
FGt(x, y) ==
    IF Sign(x.m) # Sign(y.m) THEN Sign(x.m) > Sign(y.m)
    ELSE IF x.m = 0 THEN FALSE
    ELSE IF x.m > 0 THEN x.e > y.e \/ (x.e = y.e /\ x.m > y.m)
    ELSE x.e < y.e \/ (x.e = y.e /\ x.m > y.m)

\* the integer r with r*r <= n < (r+1)*(r+1), lo <= r < hi
RECURSIVE ISqrt(_, _, _)
ISqrt(n, lo, hi) ==
    IF hi - lo <= 1 THEN lo
    ELSE LET mid == (lo + hi) \div 2
         IN  IF mid * mid <= n THEN ISqrt(n, mid, hi) ELSE ISqrt(n, lo, mid)

\* m * 2^e with e even and m of 2*MantBits + 3 or 2*MantBits + 4 bits
RECURSIVE ScaleRadicand(_, _)
ScaleRadicand(m, e) ==
    IF m < Pow2(2 * MantBits + 2) \/ e % 2 # 0
    THEN ScaleRadicand(m * 2, e - 1)
    ELSE [m |-> m, e |-> e]

\* x ** 0.5 for x >= 0, as the correctly rounded square root
FSqrt(x) ==
    IF x.m = 0 THEN FZero
    ELSE LET s == ScaleRadicand(x.m, x.e)
             r == ISqrt(s.m, 0, Pow2(MantBits + 3))
         IN  RoundRatio(4 * r + (IF r * r = s.m THEN 0 ELSE 1), 4, s.e \div 2)

\* sum(xs): left to right, starting from the int 0
RECURSIVE FSum(_, _, _)
FSum(xs, k, acc) ==
    IF k > Len(xs) THEN acc ELSE FSum(xs, k + 1, FAdd(acc, xs[k]))

\* the integer nearest to x * scale (ties to even), for a float x >= 0:
\* the digits of f"{x:.0f}" (scale 1) and of f"{x:.1f}" (scale 10)
RoundToInt(x, scale) ==
    IF x.m = 0 THEN 0
    ELSE IF x.e >= 0 THEN x.m * Pow2(x.e) * scale
    ELSE IF -x.e > 2 * MantBits + 8 THEN 0
    ELSE LET num == x.m * scale
             den == Pow2(-x.e)
             q   == num \div den
             rem == num % den
         IN  IF 2 * rem > den \/ (2 * rem = den /\ q % 2 = 1) THEN q + 1 ELSE q

----------------------------------------------------------------------------
(* detect_anomalies: patterns.py 115-193 *)

\* line 127: the literal 5
MinRecords == 5

\* line 185: if gap > 300
GapLimit == 300

\* line 164: the literal 0.8
HighRate == FloatOf(4, 5)

\* line 133: entry.timestamp.strftime('%Y-%m-%d %H:%M'), the calendar minute
MinuteKey(ts) == ts \div 60

\* lines 132-138: minute_buckets, a dict and so in first-insertion order;
\* here the sequence of its items, the key inside each item
RECURSIVE BucketLoop(_, _, _)
BucketLoop(ls, k, buckets) ==
    IF k > Len(ls) THEN buckets
    ELSE LET key == MinuteKey(ls[k].timestamp)
             b1  == IF \E i \in 1..Len(buckets) : buckets[i].key = key
                    THEN buckets
                    ELSE Append(buckets, [key |-> key, total |-> 0, errors |-> 0])
             pos == CHOOSE i \in 1..Len(b1) : b1[i].key = key
             b2  == [b1 EXCEPT ![pos].total = @ + 1]
             b3  == IF ls[k].level = "ERROR"
                    THEN [b2 EXCEPT ![pos].errors = @ + 1]
                    ELSE b2
         IN  BucketLoop(ls, k + 1, b3)

\* lines 146 and 155: bucket['errors'] / bucket['total'] if bucket['total'] > 0 else 0
Rate(bucket) ==
    IF bucket.total > 0 THEN FloatOf(bucket.errors, bucket.total) ELSE FZero

\* line 149: sum(error_rates) / len(error_rates)
Mean(xs) == FDiv(FSum(xs, 1, FZero), FromInt(Len(xs)))

\* lines 150 and 170: sum((x - mean) ** 2 for x in xs) / len(xs)
Variance(xs, mean) ==
    LET sq == [k \in 1..Len(xs) |-> LET d == FSub(xs[k], mean) IN FMul(d, d)]
    IN  FDiv(FSum(sq, 1, FZero), FromInt(Len(xs)))

\* sum of a list of ints
RECURSIVE IntSum(_, _)
IntSum(xs, k) == IF k > Len(xs) THEN 0 ELSE xs[k] + IntSum(xs, k + 1)

\* lines 158 and 173, mutated: the deviation is taken below the mean
Exceeds_Swapped(x, mean, sensitivity, std) ==
    FGt(std, FZero) /\ FGt(FSub(mean, x), FMul(sensitivity, std))

\* lines 158 and 173: std > 0 and (x - mean) > sensitivity * std
Exceeds(x, mean, sensitivity, std) ==
    FGt(std, FZero) /\ FGt(FSub(x, mean), FMul(sensitivity, std))

\* lines 159-165; error_rate and expected_rate are the percent texts
\* f"{rate:.0%}", given here by their number
HighErrorRate(bucket, rate, mean_rate) ==
    [type |-> "high_error_rate",
     time |-> bucket.key,
     error_rate |-> RoundToInt(FMul(rate, FromInt(100)), 1),
     expected_rate |-> RoundToInt(FMul(mean_rate, FromInt(100)), 1),
     severity |-> IF FGt(rate, HighRate) THEN "HIGH" ELSE "MEDIUM"]

\* lines 174-180; expected_count is the text f"{mean_volume:.1f}", given
\* here by its number of tenths
VolumeSpike(bucket, mean_volume) ==
    [type |-> "volume_spike",
     time |-> bucket.key,
     count |-> bucket.total,
     expected_count |-> RoundToInt(mean_volume, 10),
     severity |-> "MEDIUM"]

\* lines 154-180: the loop over the buckets, from bucket k on
RECURSIVE FlagLoop(_, _, _, _, _, _)
FlagLoop(buckets, k, mean_rate, std_dev, sensitivity, anomalies) ==
    IF k > Len(buckets) THEN anomalies
    ELSE LET bucket == buckets[k]
             rate   == Rate(bucket)
             a1     == IF Exceeds(rate, mean_rate, sensitivity, std_dev)
                       THEN Append(anomalies, HighErrorRate(bucket, rate, mean_rate))
                       ELSE anomalies
             \* lines 168-171, recomputed for every bucket
             total_counts == [i \in 1..Len(buckets) |-> buckets[i].total]
             mean_volume  == FloatOf(IntSum(total_counts, 1), Len(total_counts))
             vol_variance == Variance([i \in 1..Len(total_counts) |->
                                          FromInt(total_counts[i])], mean_volume)
             vol_std      == FSqrt(vol_variance)
             a2     == IF Exceeds(FromInt(bucket.total), mean_volume, sensitivity, vol_std)
                       THEN Append(a1, VolumeSpike(bucket, mean_volume))
                       ELSE a1
         IN  FlagLoop(buckets, k + 1, mean_rate, std_dev, sensitivity, a2)

\* line 185, mutated: a gap of GapLimit seconds counts
IsGap_Inclusive(gap) == gap >= GapLimit

\* line 185: if gap > 300
IsGap(gap) == gap > GapLimit

\* lines 183-191: the loop over the consecutive pairs (i is 1-based here)
RECURSIVE GapLoop(_, _, _)
GapLoop(ls, i, anomalies) ==
    IF i > Len(ls) THEN anomalies
    ELSE LET gap == ls[i].timestamp - ls[i - 1].timestamp
         IN  GapLoop(ls, i + 1,
                     IF IsGap(gap)
                     THEN Append(anomalies,
                                 [type |-> "time_gap",
                                  time |-> ls[i].timestamp,
                                  gap_seconds |-> gap,
                                  severity |-> "LOW"])
                     ELSE anomalies)

\* line 127, mutated: a sequence of MinRecords - 1 records is analysed
TooFew_OneLess(ls) == Len(ls) < MinRecords - 1

\* line 127: if len(logs) < 5
TooFew(ls) == Len(ls) < MinRecords

\* lines 154-191, mutated: the pairs of records are scanned before the buckets
detect_anomalies_GapsFirst(ls, sensitivity) ==
    IF TooFew(ls) THEN <<>>
    ELSE LET minute_buckets == BucketLoop(ls, 1, <<>>)
         IN  IF Len(minute_buckets) = 0 THEN <<>>
             ELSE LET error_rates == [k \in 1..Len(minute_buckets) |->
                                         Rate(minute_buckets[k])]
                      mean_rate == Mean(error_rates)
                      variance  == Variance(error_rates, mean_rate)
                      std_dev   == FSqrt(variance)
                  IN  FlagLoop(minute_buckets, 1, mean_rate, std_dev,
                               sensitivity, GapLoop(ls, 2, <<>>))

\* lines 115-193
detect_anomalies(ls, sensitivity) ==
    IF TooFew(ls) THEN <<>>
    ELSE LET minute_buckets == BucketLoop(ls, 1, <<>>)
         IN  IF Len(minute_buckets) = 0 THEN <<>>
             ELSE LET error_rates == [k \in 1..Len(minute_buckets) |->
                                         Rate(minute_buckets[k])]
                      mean_rate == Mean(error_rates)
                      variance  == Variance(error_rates, mean_rate)
                      std_dev   == FSqrt(variance)
                  IN  GapLoop(ls, 2,
                              FlagLoop(minute_buckets, 1, mean_rate, std_dev,
                                       sensitivity, <<>>))

----------------------------------------------------------------------------
(* Text.  A line is a sequence of one-character strings over the letters,  *)
(* the digits, space, tab and ASCII punctuation; there is no newline in a  *)
(* line, so the regular expression `.` matches every character, and no     *)
(* backslash.                                                              *)

LowerLetters == <<"a", "b", "c", "d", "e", "f", "g", "h", "i", "j", "k", "l", "m", "n", "o", "p",
                 "q", "r", "s", "t", "u", "v", "w", "x", "y", "z">>
UpperLetters == <<"A", "B", "C", "D", "E", "F", "G", "H", "I", "J", "K", "L", "M", "N", "O", "P",
                 "Q", "R", "S", "T", "U", "V", "W", "X", "Y", "Z">>

\* \s, \w and \d of the re module, restricted to the characters of a line
Whitespace == {" ", "\t"}
WordChars == Range(LowerLetters) \cup Range(UpperLetters) \cup Digits \cup {"_"}

\* str.upper() and str.lower()
UpperChar(c) ==
    IF c \in Range(LowerLetters)
    THEN UpperLetters[CHOOSE i \in 1..26 : LowerLetters[i] = c]
    ELSE c
LowerChar(c) ==
    IF c \in Range(UpperLetters)
    THEN LowerLetters[CHOOSE i \in 1..26 : UpperLetters[i] = c]
    ELSE c
Upper(s) == [i \in 1..Len(s) |-> UpperChar(s[i])]
Lower(s) == [i \in 1..Len(s) |-> LowerChar(s[i])]

SetMin(S) == CHOOSE x \in S : \A y \in S : x <= y

\* the first position >= i whose character is in C (is not in C);
\* Len(s) + 1 when there is none
FirstIn(s, i, C) ==
    LET hits == {j \in i..Len(s) : s[j] \in C}
    IN  IF hits = {} THEN Len(s) + 1 ELSE SetMin(hits)
FirstNotIn(s, i, C) ==
    LET hits == {j \in i..Len(s) : s[j] \notin C}
    IN  IF hits = {} THEN Len(s) + 1 ELSE SetMin(hits)

\* the str of a sequence of characters
RECURSIVE Text(_)
Text(chars) == IF Len(chars) = 0 THEN "" ELSE chars[1] \o Text(Tail(chars))

\* s[i..j], empty when j < i
Slice(s, i, j) ==
    LET last == IF j < Len(s) THEN j ELSE Len(s)
    IN  IF last < i THEN <<>> ELSE SubSeq(s, i, last)

\* s contains t as a substring: t in s
Contains(s, t) ==
    \E i \in 1..(Len(s) - Len(t) + 1) : Slice(s, i, i + Len(t) - 1) = t

\* s has, from position i on, one character of each set of shape
MatchesAt(s, i, shape) ==
    /\ i + Len(shape) - 1 <= Len(s)
    /\ \A k \in 1..Len(shape) : s[i + k - 1] \in shape[k]

IsDigits(s) == \A i \in 1..Len(s) : s[i] \in Digits

\* int(s) for a sequence of decimal digits
DigitValue(c) == CHOOSE n \in 0..9 : <<"0", "1", "2", "3", "4", "5", "6", "7", "8", "9">>[n + 1] = c
RECURSIVE Num(_)
Num(s) == IF Len(s) = 0 THEN 0
          ELSE 10 * Num(SubSeq(s, 1, Len(s) - 1)) + DigitValue(s[Len(s)])

----------------------------------------------------------------------------
(* datetime: a date-time is the record of its six fields.  The constructor *)
(* and so strptime and fromisoformat raise ValueError for fields that are  *)
(* not a calendar date-time.                                               *)

DateTime(y, mo, d, h, mi, s) ==
    [year |-> y, month |-> mo, day |-> d, hour |-> h, minute |-> mi, second |-> s]

IsLeap(y) == y % 4 = 0 /\ (y % 100 # 0 \/ y % 400 = 0)

DaysInMonth(y, mo) ==
    IF mo = 2 THEN (IF IsLeap(y) THEN 29 ELSE 28)
    ELSE IF mo \in {4, 6, 9, 11} THEN 30 ELSE 31

ValidDateTime(dt) ==
    /\ dt.year >= 1 /\ dt.year <= 9999
    /\ dt.month >= 1 /\ dt.month <= 12
    /\ dt.day >= 1 /\ dt.day <= DaysInMonth(dt.year, dt.month)
    /\ dt.hour >= 0 /\ dt.hour <= 23
    /\ dt.minute >= 0 /\ dt.minute <= 59
    /\ dt.second >= 0 /\ dt.second <= 59

\* what a call of a parser comes to: a record, None, or an exception that
\* leaves the function
Returned(entry) == [kind |-> "entry", entry |-> entry]
NoRecord == [kind |-> "none"]
Raised(exc) == [kind |-> "raised", exc |-> exc]

----------------------------------------------------------------------------
(* parse_log_line: analyzer.py 18-26 *)

\* \d{4}-\d{2}-\d{2} \d{2}:\d{2}:\d{2}
DateTimeShape ==
    <<Digits, Digits, Digits, Digits, {"-"}, Digits, Digits, {"-"}, Digits, Digits,
      {" "}, Digits, Digits, {":"}, Digits, Digits, {":"}, Digits, Digits>>

\* line 20-21: re.match(r'(\d{4}-\d{2}-\d{2} \d{2}:\d{2}:\d{2}) (\w+)\s+(.*)', line).
\* \w+ and \s+ are greedy and their classes are disjoint, so that each takes
\* its whole run; the match is the three groups, or a record without them.
StandardMatch(s) ==
    IF ~(MatchesAt(s, 1, DateTimeShape) /\ Len(s) >= 20 /\ s[20] = " ")
    THEN [matched |-> FALSE]
    ELSE LET wordEnd  == FirstNotIn(s, 21, WordChars) - 1
             spaceEnd == FirstNotIn(s, wordEnd + 1, Whitespace) - 1
         IN  IF wordEnd < 21 \/ spaceEnd <= wordEnd
             THEN [matched |-> FALSE]
             ELSE [matched |-> TRUE,
                   g1 |-> SubSeq(s, 1, 19),
                   g2 |-> SubSeq(s, 21, wordEnd),
                   g3 |-> Slice(s, spaceEnd + 1, Len(s))]

\* line 24: datetime.strptime(text, '%Y-%m-%d %H:%M:%S') for a text of the
\* shape DateTimeShape; the date-time, or the ValueError
StrptimeStandard(t) ==
    LET dt == DateTime(Num(SubSeq(t, 1, 4)), Num(SubSeq(t, 6, 7)), Num(SubSeq(t, 9, 10)),
                       Num(SubSeq(t, 12, 13)), Num(SubSeq(t, 15, 16)), Num(SubSeq(t, 18, 19)))
    IN  IF ValidDateTime(dt) THEN [ok |-> TRUE, value |-> dt]
        ELSE [ok |-> FALSE, exc |-> "ValueError"]

parse_log_line(s) ==
    LET match == StandardMatch(s)
    IN  IF match.matched
        THEN LET ts == StrptimeStandard(match.g1)
             IN  IF ts.ok THEN Returned(LogEntry(ts.value, Text(match.g2), match.g3))
                 ELSE Raised(ts.exc)
        ELSE NoRecord

----------------------------------------------------------------------------
(* parse_apache_log and parse_nginx_log: patterns.py 17-61 *)

\* the abbreviated month names of %b, which strptime matches in any case
MonthNames ==
   << <<"j", "a", "n">>,
      <<"f", "e", "b">>,
      <<"m", "a", "r">>,
      <<"a", "p", "r">>,
      <<"m", "a", "y">>,
      <<"j", "u", "n">>,
      <<"j", "u", "l">>,
      <<"a", "u", "g">>,
      <<"s", "e", "p">>,
      <<"o", "c", "t">>,
      <<"n", "o", "v">>,
      <<"d", "e", "c">> >>

\* line 25 / 49: datetime.strptime(text, '%d/%b/%Y:%H:%M:%S').  The text
\* must be day/month/year:hour:minute:second in full; day, hour, minute and
\* second are one or two digits in the range of the directive, the year is
\* four digits.
StrptimeCombined(t) ==
    LET i1 == FirstIn(t, 1, {"/"})
        i2 == FirstIn(t, i1 + 1, {"/"})
        i3 == FirstIn(t, i2 + 1, {":"})
        i4 == FirstIn(t, i3 + 1, {":"})
        i5 == FirstIn(t, i4 + 1, {":"})
        d  == Slice(t, 1, i1 - 1)
        b  == Lower(Slice(t, i1 + 1, i2 - 1))
        y  == Slice(t, i2 + 1, i3 - 1)
        h  == Slice(t, i3 + 1, i4 - 1)
        mi == Slice(t, i4 + 1, i5 - 1)
        s  == Slice(t, i5 + 1, Len(t))
        OneOrTwoDigits(x, lo, hi) ==
            /\ Len(x) \in {1, 2} /\ IsDigits(x)
            /\ (Len(x) = 2 => (Num(x) >= lo /\ Num(x) <= hi))
            /\ (Len(x) = 1 => Num(x) >= lo)
        shaped == /\ OneOrTwoDigits(d, 1, 31)
                  /\ \E k \in 1..12 : MonthNames[k] = b
                  /\ Len(y) = 4 /\ IsDigits(y)
                  /\ OneOrTwoDigits(h, 0, 23)
                  /\ OneOrTwoDigits(mi, 0, 59)
                  /\ OneOrTwoDigits(s, 0, 61)
    IN  IF ~shaped THEN [ok |-> FALSE, exc |-> "ValueError"]
        ELSE LET dt == DateTime(Num(y), CHOOSE k \in 1..12 : MonthNames[k] = b,
                                Num(d), Num(h), Num(mi), Num(s))
             IN  IF ValidDateTime(dt) THEN [ok |-> TRUE, value |-> dt]
                 ELSE [ok |-> FALSE, exc |-> "ValueError"]

\* the part  (\S+) (\S+) \S+" (\d{3}) SIZE  of both patterns, from position
\* q on; SIZE is \S+ for Apache and (\d+) for Nginx.  Every \S+ is followed
\* by a character that is not \S, so it takes its whole run of non-blanks.
RequestTail(s, q, digitSize) ==
    LET a == FirstIn(s, q, Whitespace) - 1
        b == FirstIn(s, a + 2, Whitespace) - 1
        c == FirstIn(s, b + 2, Whitespace) - 1
    IN  IF /\ a >= q /\ a + 1 <= Len(s) /\ s[a + 1] = " "
           /\ b >= a + 2 /\ b + 1 <= Len(s) /\ s[b + 1] = " "
           /\ c >= b + 3 /\ s[c] = "\""
           /\ MatchesAt(s, c + 1, <<{" "}, Digits, Digits, Digits, {" "}>>)
           /\ c + 6 <= Len(s)
           /\ IF digitSize THEN s[c + 6] \in Digits ELSE s[c + 6] \notin Whitespace
        THEN [matched |-> TRUE,
              g3 |-> SubSeq(s, q, a), g4 |-> SubSeq(s, a + 2, b),
              g5 |-> SubSeq(s, c + 2, c + 4)]
        ELSE [matched |-> FALSE]

\* the start  (\S+) \S+ \S+ \[  of both patterns and of the detector's:
\* the position after the bracket, 0 when the line does not start so
ThreeTokensAndBracket(s) ==
    LET e1 == FirstIn(s, 1, Whitespace) - 1
        e2 == FirstIn(s, e1 + 2, Whitespace) - 1
        e3 == FirstIn(s, e2 + 2, Whitespace) - 1
    IN  IF /\ e1 >= 1 /\ e1 + 1 <= Len(s) /\ s[e1 + 1] = " "
           /\ e2 >= e1 + 2 /\ e2 + 1 <= Len(s) /\ s[e2 + 1] = " "
           /\ e3 >= e2 + 2
           /\ MatchesAt(s, e3 + 1, <<{" "}, {"["}>>)
        THEN e3 + 3
        ELSE 0

\* lines 21-22 / 45-46: re.match of
\*   (\S+) \S+ \S+ \[(.+?)\] "(\S+) (\S+) \S+" (\d{3}) SIZE
\* The lazy group 2 ends at the first place from which the rest matches.
CombinedMatch(s, digitSize) ==
    LET p    == ThreeTokensAndBracket(s)
        ends == {j \in p..Len(s) :
                    /\ MatchesAt(s, j + 1, <<{"]"}, {" "}, {"\""}>>)
                    /\ RequestTail(s, j + 4, digitSize).matched}
    IN  IF p = 0 \/ ends = {} THEN [matched |-> FALSE]
        ELSE LET j    == SetMin(ends)
                 tail == RequestTail(s, j + 4, digitSize)
             IN  [matched |-> TRUE, g2 |-> SubSeq(s, p, j),
                  g3 |-> tail.g3, g4 |-> tail.g4, g5 |-> tail.g5]

\* str(n) for an int n >= 0
RECURSIVE IntText(_)
IntText(n) ==
    IF n < 10 THEN <<<<"0", "1", "2", "3", "4", "5", "6", "7", "8", "9">>[n + 1]>>
    ELSE Append(IntText(n \div 10), <<"0", "1", "2", "3", "4", "5", "6", "7", "8", "9">>[(n % 10) + 1])

\* lines 31 / 54, mutated: status 400 is not yet a WARN
StatusLevel_WarnAbove(status_code) ==
    IF status_code >= 500 THEN "ERROR"
    ELSE IF status_code > 400 THEN "WARN"
    ELSE "INFO"

\* lines 29-34 / 52-57
StatusLevel(status_code) ==
    IF status_code >= 500 THEN "ERROR"
    ELSE IF status_code >= 400 THEN "WARN"
    ELSE "INFO"

\* lines 23-37 / 47-60: what both parsers do with a match
CombinedEntry(match) ==
    LET ts_str == Slice(match.g2, 1, FirstIn(match.g2, 1, {" "}) - 1)
        ts == StrptimeCombined(ts_str)
        status_code == Num(match.g5)
        message == match.g3 \o <<" ">> \o match.g4 \o <<" ", "-", " ">>
                       \o IntText(status_code)
    IN  IF ts.ok
        THEN Returned(LogEntry(ts.value, StatusLevel(status_code), message))
        ELSE Raised(ts.exc)

parse_apache_log(s) ==
    LET match == CombinedMatch(s, FALSE)
    IN  IF match.matched THEN CombinedEntry(match) ELSE NoRecord

parse_nginx_log(s) ==
    LET match == CombinedMatch(s, TRUE)
    IN  IF match.matched THEN CombinedEntry(match) ELSE NoRecord

----------------------------------------------------------------------------
(* json.loads, as patterns.py 69 and 82 call it.  A JSON value is          *)
(* [t |-> its type, v |-> its content]: the characters of a string, the    *)
(* text of a number, the items of an array, the key/value items of an      *)
(* object in the order written.  The result of a scan is the value and the *)
(* position after it, or a failure (json.JSONDecodeError).                 *)

JStr(chars) == [t |-> "str", v |-> chars]
JFail == [ok |-> FALSE]
JOk(value, next) == [ok |-> TRUE, value |-> value, next |-> next]

\* the position of the first character at or after i that is not blank
JsonSkip(s, i) == FirstNotIn(s, i, Whitespace)

\* the text t stands in s at position i
TextAt(s, i, t) == Slice(s, i, i + Len(t) - 1) = t

\* a string: from the quote at i to the next quote; a control character
\* (the tab) inside is an error
JsonString(s, i) ==
    LET j == FirstIn(s, i + 1, {"\""})
    IN  IF j > Len(s) \/ \E k \in (i + 1)..(j - 1) : s[k] = "\t" THEN JFail
        ELSE JOk(JStr(Slice(s, i + 1, j - 1)), j + 1)

\* a number: (-?(?:0|[1-9]\d*))(\.\d+)?([eE][-+]?\d+)? at position i
JsonNumber(s, i) ==
    LET st      == IF s[i] = "-" THEN i + 1 ELSE i
        intEnd  == IF st <= Len(s) /\ s[st] = "0" THEN st
                   ELSE FirstNotIn(s, st, Digits) - 1
        fracEnd == IF MatchesAt(s, intEnd + 1, <<{"."}, Digits>>)
                   THEN FirstNotIn(s, intEnd + 2, Digits) - 1
                   ELSE intEnd
        expAt   == IF MatchesAt(s, fracEnd + 1, <<{"e", "E"}, {"+", "-"}>>)
                   THEN fracEnd + 3 ELSE fracEnd + 2
        expEnd  == IF MatchesAt(s, fracEnd + 1, <<{"e", "E"}>>)
                      /\ MatchesAt(s, expAt, <<Digits>>)
                   THEN FirstNotIn(s, expAt, Digits) - 1
                   ELSE fracEnd
    IN  IF intEnd < st THEN JFail
        ELSE JOk([t |-> "num", v |-> Slice(s, i, expEnd)], expEnd + 1)

\* the words the scanner knows, in the order it tries them
JsonWords ==
    << [text |-> <<"n", "u", "l", "l">>, value |-> [t |-> "null", v |-> <<>>]],
       [text |-> <<"t", "r", "u", "e">>, value |-> [t |-> "bool", v |-> <<"1">>]],
       [text |-> <<"f", "a", "l", "s", "e">>, value |-> [t |-> "bool", v |-> <<>>]],
       [text |-> <<"N", "a", "N">>, value |-> [t |-> "num", v |-> <<"N", "a", "N">>]],
       [text |-> <<"I", "n", "f", "i", "n", "i", "t", "y">>, value |-> [t |-> "num", v |-> <<"I", "n", "f", "i", "n", "i", "t", "y">>]],
       [text |-> <<"-", "I", "n", "f", "i", "n", "i", "t", "y">>, value |-> [t |-> "num", v |-> <<"-", "I", "n", "f", "i", "n", "i", "t", "y">>]] >>

RECURSIVE JsonValue(_, _)
RECURSIVE JsonArrayItems(_, _, _)
RECURSIVE JsonObjectItems(_, _, _)

\* the items of an array, the next of them at position i
JsonArrayItems(s, i, items) ==
    LET item == JsonValue(s, i)
    IN  IF ~item.ok THEN JFail
        ELSE LET k   == JsonSkip(s, item.next)
                 all == Append(items, item.value)
             IN  IF k > Len(s) THEN JFail
                 ELSE IF s[k] = "]" THEN JOk([t |-> "arr", v |-> all], k + 1)
                 ELSE IF s[k] = "," THEN JsonArrayItems(s, JsonSkip(s, k + 1), all)
                 ELSE JFail

\* the items of an object, the key of the next of them at position i
JsonObjectItems(s, i, items) ==
    IF i > Len(s) \/ s[i] # "\"" THEN JFail
    ELSE LET key == JsonString(s, i)
         IN  IF ~key.ok THEN JFail
             ELSE LET colon == JsonSkip(s, key.next)
                  IN  IF colon > Len(s) \/ s[colon] # ":" THEN JFail
                      ELSE LET item == JsonValue(s, JsonSkip(s, colon + 1))
                           IN  IF ~item.ok THEN JFail
                               ELSE LET k   == JsonSkip(s, item.next)
                                        all == Append(items, [key |-> key.value.v,
                                                              value |-> item.value])
                                    IN  IF k > Len(s) THEN JFail
                                        ELSE IF s[k] = "}"
                                        THEN JOk([t |-> "obj", v |-> all], k + 1)
                                        ELSE IF s[k] = ","
                                        THEN JsonObjectItems(s, JsonSkip(s, k + 1), all)
                                        ELSE JFail

\* the value that starts at position i
JsonValue(s, i) ==
    IF i > Len(s) THEN JFail
    ELSE IF s[i] = "\"" THEN JsonString(s, i)
    ELSE IF s[i] = "{"
    THEN LET k == JsonSkip(s, i + 1)
         IN  IF k <= Len(s) /\ s[k] = "}" THEN JOk([t |-> "obj", v |-> <<>>], k + 1)
             ELSE JsonObjectItems(s, k, <<>>)
    ELSE IF s[i] = "["
    THEN LET k == JsonSkip(s, i + 1)
         IN  IF k <= Len(s) /\ s[k] = "]" THEN JOk([t |-> "arr", v |-> <<>>], k + 1)
             ELSE JsonArrayItems(s, k, <<>>)
    ELSE LET number == JsonNumber(s, i)
             words  == {w \in 1..Len(JsonWords) : TextAt(s, i, JsonWords[w].text)}
         IN  IF words # {} /\ SetMin(words) <= 3
             THEN JOk(JsonWords[SetMin(words)].value,
                      i + Len(JsonWords[SetMin(words)].text))
             ELSE IF number.ok THEN number
             ELSE IF words # {}
             THEN JOk(JsonWords[SetMin(words)].value,
                      i + Len(JsonWords[SetMin(words)].text))
             ELSE JFail

\* json.loads(s): one value, blanks around it allowed, nothing else
JsonLoads(s) ==
    LET r == JsonValue(s, JsonSkip(s, 1))
    IN  IF r.ok /\ JsonSkip(s, r.next) = Len(s) + 1 THEN r ELSE JFail

\* dict.get(key, default): the last item written with that key
DictGet(obj, key, default) ==
    LET hits == {k \in 1..Len(obj.v) : obj.v[k].key = key}
    IN  IF hits = {} THEN default
        ELSE obj.v[CHOOSE k \in hits : \A h \in hits : h <= k].value

----------------------------------------------------------------------------
(* parse_json_log: patterns.py 64-75 *)

\* line 70: datetime.fromisoformat(text): YYYY-MM-DD, alone or followed by
\* one separator character and HH, HH:MM or HH:MM:SS (fractions of a second
\* and UTC offsets are left out); the date-time, or the ValueError
FromIsoFormat(t) ==
    LET dateShape == <<Digits, Digits, Digits, Digits, {"-"}, Digits, Digits,
                       {"-"}, Digits, Digits>>
        time  == Slice(t, 12, Len(t))
        timeShape == <<Digits, Digits, {":"}, Digits, Digits, {":"}, Digits, Digits>>
        shaped == /\ MatchesAt(t, 1, dateShape)
                  /\ \/ Len(t) = 10
                     \/ /\ Len(time) \in {2, 5, 8}
                        /\ MatchesAt(time, 1, SubSeq(timeShape, 1, Len(time)))
        Field(i) == IF Len(time) >= i + 1 THEN Num(SubSeq(time, i, i + 1)) ELSE 0
    IN  IF ~shaped THEN [ok |-> FALSE, exc |-> "ValueError"]
        ELSE LET dt == DateTime(Num(SubSeq(t, 1, 4)), Num(SubSeq(t, 6, 7)),
                                Num(SubSeq(t, 9, 10)), Field(1), Field(4), Field(7))
             IN  IF ValidDateTime(dt) THEN [ok |-> TRUE, value |-> dt]
                 ELSE [ok |-> FALSE, exc |-> "ValueError"]

\* a JSON value as the Python object the parser stores: a str by its
\* characters, anything else as it is
PyValue(jv) == IF jv.t = "str" THEN jv.v ELSE jv

parse_json_log(s) ==
    LET data == JsonLoads(s)
    IN  IF ~data.ok THEN NoRecord                             \* JSONDecodeError, caught
        ELSE IF data.value.t # "obj" THEN Raised("AttributeError")  \* data.get
        ELSE LET obj == data.value
                 timestamp == DictGet(obj, <<"t", "i", "m", "e", "s", "t", "a", "m", "p">>, JStr(<<>>))
             IN  IF timestamp.t # "str" THEN Raised("TypeError")    \* fromisoformat
                 ELSE LET ts == FromIsoFormat(timestamp.v)
                          level == DictGet(obj, <<"l", "e", "v", "e", "l">>, JStr(<<"I", "N", "F", "O">>))
                          message == DictGet(obj, <<"m", "e", "s", "s", "a", "g", "e">>,
                                         DictGet(obj, <<"m", "s", "g">>, JStr(<<>>)))
                      IN  IF ~ts.ok THEN NoRecord                   \* ValueError, caught
                          ELSE IF level.t # "str" THEN Raised("AttributeError")  \* .upper()
                          ELSE Returned(LogEntry(ts.value, Text(Upper(level.v)), PyValue(message)))

----------------------------------------------------------------------------
(* detect_log_format: patterns.py 78-97 *)

\* line 88: re.match(r'\S+ \S+ \S+ \[.+?\] ".+?"', line)
CombinedShape(s) ==
    LET p == ThreeTokensAndBracket(s)
    IN  /\ p # 0
        /\ \E j \in p..Len(s) :
              /\ MatchesAt(s, j + 1, <<{"]"}, {" "}, {"\""}>>)
              /\ \E k \in (j + 5)..Len(s) : s[k] = "\""

\* line 89: '"Mozilla' in line or '"curl' in line
HasUserAgent(s) ==
    Contains(s, <<"\"", "M", "o", "z", "i", "l", "l", "a">>) \/ Contains(s, <<"\"", "c", "u", "r", "l">>)

\* the date-time test of line 92 made before the combined-log test of line 88
detect_log_format_StandardFirst(s) ==
    IF JsonLoads(s).ok THEN "json"
    ELSE IF MatchesAt(s, 1, DateTimeShape) THEN "standard"
    ELSE IF CombinedShape(s)
    THEN (IF HasUserAgent(s) THEN "nginx" ELSE "apache")
    ELSE "unknown"

detect_log_format(s) ==
    IF JsonLoads(s).ok THEN "json"
    ELSE IF CombinedShape(s)
    THEN (IF HasUserAgent(s) THEN "nginx" ELSE "apache")
    ELSE IF MatchesAt(s, 1, DateTimeShape) THEN "standard"
    ELSE "unknown"

----------------------------------------------------------------------------
(* get_parser: patterns.py 100-108, and the parser selection and the       *)
(* parsing loop of main: cli.py 28-53.  A function object is named by the  *)
(* name of the function, None by "None".                                   *)

\* patterns.py 102-107, mutated: the nginx tag gives the apache parser
ParserTable_NginxAsApache ==
    [standard |-> "None",
     apache   |-> "parse_apache_log",
     nginx    |-> "parse_apache_log",
     json     |-> "parse_json_log"]

\* patterns.py 102-107: the dict `parsers`
ParserTable ==
    [standard |-> "None",
     apache   |-> "parse_apache_log",
     nginx    |-> "parse_nginx_log",
     json     |-> "parse_json_log"]

\* patterns.py 108: parsers.get(format_type)
get_parser(format_type) ==
    IF format_type \in DOMAIN ParserTable THEN ParserTable[format_type] ELSE "None"

\* str.strip(): the text without the blanks at its two ends
Strip(s) ==
    LET inner == {i \in 1..Len(s) : s[i] \notin Whitespace}
    IN  IF inner = {} THEN <<>>
        ELSE SubSeq(s, SetMin(inner), CHOOSE i \in inner : \A j \in inner : j <= i)

\* cli.py 31-32: f.readline().strip(), the empty text at the end of the file
FirstLine(file) == Strip(IF Len(file) = 0 THEN <<>> ELSE file[1])

\* cli.py 28-47: the parser main uses for --format format_arg
SelectParser(format_arg, file) ==
    IF format_arg = "auto"
    THEN LET detected == detect_log_format(FirstLine(file))
         IN  IF detected # "standard" /\ detected # "unknown"
             THEN LET custom_parser == get_parser(detected)
                  IN  IF custom_parser # "None" THEN custom_parser
                      ELSE "parse_log_line"
             ELSE "parse_log_line"
    ELSE IF format_arg # "standard"
    THEN LET custom_parser == get_parser(format_arg)
         IN  IF custom_parser # "None" THEN custom_parser ELSE "parse_log_line"
    ELSE "parse_log_line"

\* parser_func(text): the call of the function a name stands for; calling
\* None is a TypeError
CallParser(parser_func, text) ==
    CASE parser_func = "parse_log_line"   -> parse_log_line(text)
      [] parser_func = "parse_apache_log" -> parse_apache_log(text)
      [] parser_func = "parse_nginx_log"  -> parse_nginx_log(text)
      [] parser_func = "parse_json_log"   -> parse_json_log(text)
      [] OTHER                            -> Raised("TypeError")

\* cli.py 49-53: the loop over the lines of the file from line k on; an
\* exception of the parser ends main
RECURSIVE ParseLoop(_, _, _, _)
\* cli.py 52-53: what the loop does with the entry of line k
LoopBody(parser_func, file, k, entries, entry) ==
    IF entry.kind = "raised" THEN [logs |-> entries, raised |-> <<entry.exc>>]
    ELSE IF entry.kind = "entry"
    THEN ParseLoop(parser_func, file, k + 1, Append(entries, entry.entry))
    ELSE ParseLoop(parser_func, file, k + 1, entries)
ParseLoop(parser_func, file, k, entries) ==
    IF k > Len(file) THEN [logs |-> entries, raised |-> <<>>]
    ELSE LoopBody(parser_func, file, k, entries,
                  CallParser(parser_func, Strip(file[k])))

\* cli.py 49-55: main from the loop on, with the parser selected
MainParses(format_arg, parser_func, parsed) ==
    /\ op' = "main"
    /\ args' = <<format_arg>>
    /\ ret' = [parser_func |-> parser_func, raised |-> parsed.raised]
    /\ logs' = parsed.logs
    /\ UNCHANGED <<line, window, error_counts, first, logfile, self, clock, data_file>>
MainWith(format_arg, parser_func) ==
    MainParses(format_arg, parser_func, ParseLoop(parser_func, logfile, 1, <<>>))

\* cli.py 28-53: main, from the parser selection to the end of the loop
Main(format_arg) == MainWith(format_arg, SelectParser(format_arg, logfile))

----------------------------------------------------------------------------
(* The calls.  Each action is one whole call of a pass on the caller's     *)
(* sequence; the history variable `first` is set by the specification.     *)

NoCall ==
    /\ op = "none"
    /\ args = <<>>
    /\ ret = <<>>
    /\ window = <<>>
    /\ error_counts = <<>>

\* no log file is read, no URLShortener is constructed
NoLogFile == logfile = <<>>
NoShortener ==
    /\ self = <<>>
    /\ clock = 0
    /\ data_file = <<>>

FindErrorSpikesCall(window_minutes, threshold) ==
    LET r == find_error_spikes(logs, window_minutes, threshold)
    IN  /\ op' = "find_error_spikes"
        /\ args' = <<window_minutes, threshold>>
        /\ ret' = r.spikes
        /\ window' = r.window
        /\ UNCHANGED <<logs, line, error_counts, logfile, self, clock, data_file>>

FindRepeatedPatternsCall(min_occurrences) ==
    LET r == find_repeated_patterns(logs, min_occurrences)
    IN  /\ op' = "find_repeated_patterns"
        /\ args' = <<min_occurrences>>
        /\ ret' = r.patterns
        /\ error_counts' = r.error_counts
        /\ UNCHANGED <<logs, line, window, logfile, self, clock, data_file>>

AnalyzeTimeRangeCall(start, end) ==
    /\ op' = "analyze_time_range"
    /\ args' = <<start, end>>
    /\ ret' = analyze_time_range(logs, start, end)
    /\ UNCHANGED <<logs, line, window, error_counts, logfile, self, clock, data_file>>

DetectAnomaliesCall(sensitivity) ==
    /\ op' = "detect_anomalies"
    /\ args' = <<sensitivity>>
    /\ ret' = detect_anomalies(logs, sensitivity)
    /\ UNCHANGED <<logs, line, window, error_counts, logfile, self, clock, data_file>>

----------------------------------------------------------------------------
(* Specification SpecSpikes: find_error_spikes on every chronological      *)
(* sequence of at most MaxLen records over SpikeTimes                      *)

SpikeTimes == {0, 60, 61, 120}
SpikeEntries == {LogEntry(t, l, <<>>) : t \in SpikeTimes, l \in {"ERROR", "INFO"}}
WindowMinutes == 0..MaxWindowMinutes
Thresholds == 0..MaxThreshold

InitSpikes ==
    /\ logs \in {ls \in SeqUpTo(SpikeEntries, MaxLen) : Chronological(ls)}
    /\ line = <<>>
    /\ first = <<>>
    /\ NoCall
    /\ NoLogFile
    /\ NoShortener

CallFindErrorSpikes ==
    \E wm \in WindowMinutes, th \in Thresholds :
        FindErrorSpikesCall(wm, th) /\ UNCHANGED first

NextSpikes == CallFindErrorSpikes

SpecSpikes == InitSpikes /\ [][NextSpikes]_vars

\* positions of the ERROR records, in record order
ErrorPositions(ls) ==
    SelectSeq([i \in 1..Len(ls) |-> i], LAMBDA i : ls[i].level = "ERROR")

\* number of ERROR records at positions <= i that are at most
\* window_seconds older than record i
ErrorsInWindow(ls, i, window_seconds) ==
    Cardinality({j \in 1..i : /\ ls[j].level = "ERROR"
                              /\ ls[i].timestamp - ls[j].timestamp <= window_seconds})

ExpectedSpikes(ls, window_minutes, threshold) ==
    LET hits == SelectSeq(ErrorPositions(ls),
                    LAMBDA i : ErrorsInWindow(ls, i, window_minutes * 60) >= threshold)
    IN  [k \in 1..Len(hits) |->
            <<ls[hits[k]].timestamp, ErrorsInWindow(ls, hits[k], window_minutes * 60)>>]

\* C1: on a chronological sequence find_error_spikes returns, in record
\* order, one Spike (t_i, c) for exactly the ERROR records i whose count c of
\* ERROR records at positions <= i not more than window_minutes*60 seconds
\* older than t_i (an ERROR exactly that old included) is >= threshold;
\* records of other levels neither count nor produce a Spike.
C1_SpikesAreWindowCounts ==
    op = "find_error_spikes" =>
        ret = ExpectedSpikes(logs, args[1], args[2])

\* C1 witness: a call whose result counts an ERROR exactly window_minutes*60
\* seconds old, skips a non-ERROR record and leaves one ERROR without a Spike
C1_Witness ==
    /\ op = "find_error_spikes"
    /\ args[1] > 0
    /\ \E i, j \in 1..Len(logs) :
          /\ i < j
          /\ logs[i].level = "ERROR" /\ logs[j].level = "ERROR"
          /\ logs[j].timestamp - logs[i].timestamp = args[1] * 60
          /\ \E k \in 1..Len(ret) : ret[k] = <<logs[j].timestamp, 2>>
    /\ \E i \in 1..Len(logs) : logs[i].level = "INFO"
    /\ Len(ret) > 0
    /\ Len(ret) < Len(ErrorPositions(logs))

\* C10: m ERROR records whose first and last timestamps are at most
\* window_minutes*60 seconds apart, and a threshold T with 1 <= T <= m, give
\* exactly m-T+1 Spikes: those of the T-th to the m-th ERROR record, with
\* counts T, T+1, ..., m.
C10_OneSpikePerTriggeringRecord ==
    op = "find_error_spikes" =>
        LET ep == ErrorPositions(logs)
            m  == Len(ep)
            T  == args[2]
        IN  (/\ m >= 1
             /\ logs[ep[m]].timestamp - logs[ep[1]].timestamp <= args[1] * 60
             /\ 1 <= T /\ T <= m)
            => ret = [k \in 1..(m - T + 1) |->
                        <<logs[ep[T + k - 1]].timestamp, T + k - 1>>]

\* C10 witness: a burst of three or more ERROR records inside the window and
\* a threshold below their number, so that several records trigger
C10_Witness ==
    /\ op = "find_error_spikes"
    /\ LET ep == ErrorPositions(logs)
           m  == Len(ep)
       IN  /\ m >= 3
           /\ logs[ep[m]].timestamp - logs[ep[1]].timestamp <= args[1] * 60
           /\ args[2] >= 2 /\ args[2] < m
           /\ Len(ret) >= 2

----------------------------------------------------------------------------
(* Specification SpecRange: analyze_time_range on every chronological      *)
(* sequence of at most MaxLen records over RangeTimes                      *)

RangeTimes == {0, 10}
RangeEntries == {LogEntry(t, l, <<>>) : t \in RangeTimes, l \in Levels}
RangeBounds == {-5, 0, 5, 10, 15}

InitRange ==
    /\ logs \in {ls \in SeqUpTo(RangeEntries, MaxLen) : Chronological(ls)}
    /\ line = <<>>
    /\ first = <<>>
    /\ NoCall
    /\ NoLogFile
    /\ NoShortener

CallAnalyzeTimeRange ==
    \E start \in RangeBounds, end \in RangeBounds :
        AnalyzeTimeRangeCall(start, end) /\ UNCHANGED first

NextRange == CallAnalyzeTimeRange

SpecRange == InitRange /\ [][NextRange]_vars

\* positions of the records inside [start, end]
InRange(ls, start, end) ==
    {i \in 1..Len(ls) : start <= ls[i].timestamp /\ ls[i].timestamp <= end}

\* C2: on a chronological sequence analyze_time_range counts the records
\* with start <= timestamp <= end (both inclusive): total, those of level
\* ERROR and those of level WARN; all three are 0 when no record is in range.
C2_RangeCountsInclusive ==
    op = "analyze_time_range" =>
        LET inside == InRange(logs, args[1], args[2])
        IN  /\ ret.total = Cardinality(inside)
            /\ ret.errors = Cardinality({i \in inside : logs[i].level = "ERROR"})
            /\ ret.warnings = Cardinality({i \in inside : logs[i].level = "WARN"})
            /\ inside = {} => ret = [total |-> 0, errors |-> 0, warnings |-> 0]

\* C2 witness: a slice that starts after the first record, ends exactly on
\* the timestamp of an ERROR record and contains a WARN record
C2_Witness ==
    /\ op = "analyze_time_range"
    /\ Len(logs) >= 3
    /\ logs[1].timestamp < args[1]
    /\ \E i \in 1..Len(logs) : logs[i].timestamp = args[2] /\ logs[i].level = "ERROR"
    /\ ret.errors >= 1 /\ ret.warnings >= 1
    /\ ret.total < Len(logs)

----------------------------------------------------------------------------
(* Specification SpecPatterns: find_repeated_patterns on every sequence of *)
(* at most MaxLen records over PatternEntries                              *)

PatternMessages ==
    { <<"p", "8">>, <<"p", "3", "0">>, <<"p", "N">>, <<"7", "x", "4", "2">> }
PatternEntries ==
    {LogEntry(0, "ERROR", m) : m \in PatternMessages}
        \cup {LogEntry(0, "INFO", <<"p", "8">>)}
MinOccurrences == 0..MaxThreshold

InitPatterns ==
    /\ logs \in SeqUpTo(PatternEntries, MaxLen)
    /\ line = <<>>
    /\ first = <<>>
    /\ NoCall
    /\ NoLogFile
    /\ NoShortener

CallFindRepeatedPatterns ==
    \E mo \in MinOccurrences :
        FindRepeatedPatternsCall(mo) /\ UNCHANGED first

NextPatterns == CallFindRepeatedPatterns

SpecPatterns == InitPatterns /\ [][NextPatterns]_vars

\* a message with every maximal run of decimal digits replaced by one N:
\* the characters kept are the non-digits and the first digit of each run
DigitRunsCollapsed(m) ==
    LET keep == SelectSeq([i \in 1..Len(m) |-> i],
                    LAMBDA i : m[i] \notin Digits \/ i = 1 \/ m[i - 1] \notin Digits)
    IN  [k \in 1..Len(keep) |-> IF m[keep[k]] \in Digits THEN "N" ELSE m[keep[k]]]

\* number of ERROR records whose normalized form is key
ErrorsWithForm(ls, key) ==
    Cardinality({i \in 1..Len(ls) :
        ls[i].level = "ERROR" /\ DigitRunsCollapsed(ls[i].message) = key})

\* C3: find_repeated_patterns returns exactly the mapping from each
\* normalized message (maximal digit runs replaced by N) to the number of
\* ERROR records of that form, restricted to counts >= min_occurrences;
\* records of other levels are not counted.
C3_PatternCounts ==
    op = "find_repeated_patterns" =>
        LET forms == {DigitRunsCollapsed(logs[i].message) :
                        i \in {j \in 1..Len(logs) : logs[j].level = "ERROR"}}
        IN  /\ DOMAIN ret = {k \in forms : ErrorsWithForm(logs, k) >= args[1]}
            /\ \A k \in DOMAIN ret : ret[k] = ErrorsWithForm(logs, k)

\* C3 witness: two ERROR messages that differ only in their digit runs are
\* counted under one key, a rarer form is filtered out and an INFO record
\* with a matching message is not counted
C3_Witness ==
    /\ op = "find_repeated_patterns"
    /\ \E i, j \in 1..Len(logs) :
          /\ logs[i].level = "ERROR" /\ logs[j].level = "ERROR"
          /\ logs[i].message = <<"p", "8">> /\ logs[j].message = <<"p", "3", "0">>
    /\ \E i \in 1..Len(logs) : logs[i].level = "INFO"
    /\ <<"p", "N">> \in DOMAIN ret
    /\ ret[<<"p", "N">>] = 2
    /\ DOMAIN ret # DOMAIN error_counts

----------------------------------------------------------------------------
(* Specification SpecAnomalies: detect_anomalies on every sequence of      *)
(* fewer than MinRecords records over ShortEntries and on the sequences    *)
(* built from per-minute profiles                                          *)

\* a profile lists the minutes of a log: the distance of each minute from
\* the one before, and how many records and ERROR records it holds
Minute(gap, total, errors) == [gap |-> gap, total |-> total, errors |-> errors]

\* the records of one minute that starts at second `start`: one record per
\* second, the ERROR records first
MinuteRecords(start, total, errors) ==
    [k \in 1..total |->
        LogEntry(start + k - 1, IF k <= errors THEN "ERROR" ELSE "INFO", <<>>)]

RECURSIVE GenLogs(_, _, _)
GenLogs(profile, k, minute) ==
    IF k > Len(profile) THEN <<>>
    ELSE LET at == minute + profile[k].gap
         IN  MinuteRecords(at * 60, profile[k].total, profile[k].errors)
                 \o GenLogs(profile, k + 1, at)

MaxBuckets == 7     \* most minutes in a profile
MaxPerMinute == 5   \* most records per minute in a uniform profile
BurstSize == 10     \* records of the all-ERROR minute

\* the same load in every minute
UniformProfiles ==
    {[k \in 1..n |-> Minute(1, t, e)] :
        n \in 1..MaxBuckets, t \in 1..MaxPerMinute, e \in 0..MaxPerMinute}
UniformInputs ==
    {GenLogs(p, 1, 0) : p \in {q \in UniformProfiles : q[1].errors <= q[1].total}}

\* n quiet minutes of one INFO record each, then a minute of BurstSize ERRORs
BurstProfiles ==
    {[k \in 1..(n + 1) |-> IF k <= n THEN Minute(g, 1, 0) ELSE Minute(h, BurstSize, BurstSize)] :
        n \in 1..MaxBuckets, g \in {1, 2, 6}, h \in {1, 6}}
BurstInputs == {GenLogs(p, 1, 0) : p \in BurstProfiles}

\* two or three minutes of different load
MixedMinutes == {Minute(1, 1, 0), Minute(1, 3, 1), Minute(6, 2, 2), Minute(1, 5, 0)}
MixedInputs ==
    {GenLogs(p, 1, 0) : p \in [1..2 -> MixedMinutes] \cup [1..3 -> MixedMinutes]}

\* four minutes that are not in chronological order: the second visit of a
\* minute falls into the bucket of the first, and a step of seven minutes
\* forward is a gap of more than GapLimit seconds
MinuteSteps == {<<10, 7, -7, 7>>, <<10, -7, 14, 7>>, <<10, 7, 7, -14>>}
Loads == {<<1, 0>>, <<3, 0>>, <<3, 3>>}
UnorderedProfiles ==
    {[k \in DOMAIN g |-> Minute(g[k], l[k][1], l[k][2])] :
        g \in MinuteSteps, l \in [1..4 -> Loads]}
UnorderedInputs == {GenLogs(p, 1, 0) : p \in UnorderedProfiles}

\* MinRecords records whose timestamps step by exactly five minutes, by a
\* second more, or back by that much, under two rows of levels
GapSteps == {300, 301, -301}
LevelRows == {[k \in 1..MinRecords |-> "INFO"],
              [k \in 1..MinRecords |-> IF k % 2 = 1 THEN "ERROR" ELSE "INFO"]}

RECURSIVE GapRecords(_, _, _, _)
GapRecords(steps, levels, k, at) ==
    IF k > Len(levels) THEN <<>>
    ELSE <<LogEntry(at, levels[k], <<>>)>>
             \o GapRecords(steps, levels, k + 1,
                           IF k <= Len(steps) THEN at + steps[k] ELSE at)

GapInputs ==
    {GapRecords(steps, levels, 1, 1500) :
        steps \in [1..(MinRecords - 1) -> GapSteps], levels \in LevelRows}

\* four minutes of t records each, then a minute of three records more
SteadyProfiles ==
    {[k \in 1..5 |-> IF k <= 4 THEN Minute(1, t, 0) ELSE Minute(1, t + 3, 0)] :
        t \in {4, 5}}
SteadyInputs == {GenLogs(p, 1, 0) : p \in SteadyProfiles}

ShortEntries == {LogEntry(t, l, <<>>) : t \in {0, 60, 400}, l \in {"ERROR", "INFO"}}

\* 0.5, 1.0 and the default 2.0
Sensitivities == {FloatOf(1, 2), FloatOf(1, 1), FloatOf(2, 1)}

InitAnomalies ==
    /\ logs \in SeqUpTo(ShortEntries, MinRecords - 1) \cup UniformInputs
                    \cup BurstInputs \cup MixedInputs \cup UnorderedInputs
                    \cup GapInputs \cup SteadyInputs
    /\ line = <<>>
    /\ first = <<>>
    /\ NoCall
    /\ NoLogFile
    /\ NoShortener

CallDetectAnomalies ==
    \E s \in Sensitivities : DetectAnomaliesCall(s) /\ UNCHANGED first

NextAnomalies == CallDetectAnomalies

SpecAnomalies == InitAnomalies /\ [][NextAnomalies]_vars

\* the anomalies of one type in a result
OfType(anomalies, type) ==
    {k \in 1..Len(anomalies) : anomalies[k].type = type}

\* C6: detect_anomalies returns the empty sequence for every input of fewer
\* than 5 records, whatever they contain.
C6_FewRecordsNoAnomalies ==
    (op = "detect_anomalies" /\ Len(logs) < 5) => ret = <<>>

\* C6 witness: a call on four records that hold a gap of more than 300
\* seconds and ERROR records
C6_Witness ==
    /\ op = "detect_anomalies"
    /\ Len(logs) = 4
    /\ \E i \in 2..Len(logs) : logs[i].timestamp - logs[i - 1].timestamp > 300
    /\ \E i \in 1..Len(logs) : logs[i].level = "ERROR"
    /\ ret = <<>>

\* the input of C5: n >= 5 INFO records in n distinct minutes, then 10 ERROR
\* records in one later minute
QuietThenBurst(ls) ==
    LET n == Len(ls) - BurstSize
    IN  /\ n >= 5
        /\ \A i \in 1..n : ls[i].level = "INFO"
        /\ \A i, j \in 1..n :
              i # j => MinuteKey(ls[i].timestamp) # MinuteKey(ls[j].timestamp)
        /\ \A i \in (n + 1)..Len(ls) :
              /\ ls[i].level = "ERROR"
              /\ MinuteKey(ls[i].timestamp) = MinuteKey(ls[Len(ls)].timestamp)
              /\ \A j \in 1..n : ls[j].timestamp < ls[i].timestamp

\* C5: for n >= 5 INFO records, one in each of n distinct minutes, followed
\* by a later minute of 10 ERROR records, detect_anomalies with sensitivity
\* 1.0 returns a high_error_rate anomaly for the all-ERROR minute.
C5_BurstIsHighErrorRate ==
    (op = "detect_anomalies" /\ args[1] = FloatOf(1, 1) /\ QuietThenBurst(logs))
        => \E k \in OfType(ret, "high_error_rate") :
              ret[k].time = MinuteKey(logs[Len(logs)].timestamp)

\* C5 witness: such a call, with more than five quiet minutes
C5_Witness ==
    /\ op = "detect_anomalies"
    /\ args[1] = FloatOf(1, 1)
    /\ QuietThenBurst(logs)
    /\ Len(logs) > 15
    /\ OfType(ret, "high_error_rate") # {}

\* the calendar minutes of a sequence, and the records and ERROR records of
\* one minute
Minutes(ls) == {MinuteKey(ls[i].timestamp) : i \in 1..Len(ls)}
InMinute(ls, key) == {i \in 1..Len(ls) : MinuteKey(ls[i].timestamp) = key}
ErrorsInMinute(ls, key) == {i \in InMinute(ls, key) : ls[i].level = "ERROR"}

\* every minute has the same error rate, as exact fractions
SameRateEverywhere(ls) ==
    \A a, b \in Minutes(ls) :
        Cardinality(ErrorsInMinute(ls, a)) * Cardinality(InMinute(ls, b))
            = Cardinality(ErrorsInMinute(ls, b)) * Cardinality(InMinute(ls, a))

\* every minute has the same number of records
SameCountEverywhere(ls) ==
    \A a, b \in Minutes(ls) :
        Cardinality(InMinute(ls, a)) = Cardinality(InMinute(ls, b))

\* C7: when every minute bucket has the same error rate detect_anomalies
\* emits no high_error_rate anomaly, and when every bucket has the same
\* record count it emits no volume_spike anomaly, for every sensitivity.
C7_DegenerateStatisticsSuppressed ==
    op = "detect_anomalies" =>
        /\ SameRateEverywhere(logs) => OfType(ret, "high_error_rate") = {}
        /\ SameCountEverywhere(logs) => OfType(ret, "volume_spike") = {}

----------------------------------------------------------------------------
(* Specification SpecPasses: the four passes called in any order, any      *)
(* number of times, on one sequence                                        *)

PassEntries ==
    { LogEntry(0, "ERROR", <<"p", "8">>), LogEntry(60, "ERROR", <<"p", "3", "0">>),
      LogEntry(60, "WARN", <<"p", "8">>), LogEntry(400, "ERROR", <<"p", "8">>) }
PassInputs ==
    {ls \in SeqUpTo(PassEntries, MaxPassLen) : Chronological(ls)}
        \cup {GenLogs(p, 1, 0) : p \in [1..2 -> MixedMinutes]}

SpikeArgs == {<<1, 1>>, <<0, 2>>}
PatternArgs == {<<1>>, <<2>>}
RangeArgs == {<<60, 400>>}
AnomalyArgs == {<<FloatOf(1, 2)>>}

InitPasses ==
    /\ logs \in PassInputs
    /\ line = <<>>
    /\ first = [input |-> logs,
                repeat |-> FALSE,
                find_error_spikes |-> [a \in SpikeArgs |-> <<>>],
                find_repeated_patterns |-> [a \in PatternArgs |-> <<>>],
                analyze_time_range |-> [a \in RangeArgs |-> <<>>],
                detect_anomalies |-> [a \in AnomalyArgs |-> <<>>]]
    /\ NoCall
    /\ NoLogFile
    /\ NoShortener

\* the history: the result of the first call with these arguments is kept,
\* and whether the call just made repeats an earlier one
Remember ==
    first' = IF Len(first[op'][args']) = 0
             THEN [first EXCEPT ![op'][args'] = <<ret'>>, !.repeat = FALSE]
             ELSE [first EXCEPT !.repeat = TRUE]

PassFindErrorSpikes ==
    \E a \in SpikeArgs : FindErrorSpikesCall(a[1], a[2]) /\ Remember

PassFindRepeatedPatterns ==
    \E a \in PatternArgs : FindRepeatedPatternsCall(a[1]) /\ Remember

PassAnalyzeTimeRange ==
    \E a \in RangeArgs : AnalyzeTimeRangeCall(a[1], a[2]) /\ Remember

PassDetectAnomalies ==
    \E a \in AnomalyArgs : DetectAnomaliesCall(a[1]) /\ Remember

NextPasses ==
    \/ PassFindErrorSpikes
    \/ PassFindRepeatedPatterns
    \/ PassAnalyzeTimeRange
    \/ PassDetectAnomalies

SpecPasses == InitPasses /\ [][NextPasses]_vars

\* C9: every pass leaves the input sequence as it was handed over, and a
\* call of a pass returns what the first call of that pass with the same
\* arguments returned, whatever calls were made in between.
C9_PassesRepeatable ==
    /\ logs = first.input
    /\ op # "none" => first[op][args] = <<ret>>

\* C9 witness: find_error_spikes called again, with a non-empty result,
\* after each of the other three passes has been called on the same records
C9_Witness ==
    /\ op = "find_error_spikes"
    /\ first.repeat
    /\ Len(ret) > 0
    /\ Len(logs) >= 5
    /\ \A a \in PatternArgs : Len(first.find_repeated_patterns[a]) > 0
    /\ \A a \in RangeArgs : Len(first.analyze_time_range[a]) > 0
    /\ \A a \in AnomalyArgs : Len(first.detect_anomalies[a]) > 0

----------------------------------------------------------------------------
(* Specification SpecParsers: the four parsers and the detector on the     *)
(* lines of InputLines                                                     *)

\* lines of the standard shape: a date, a blank, a time and a tail
LineDates ==
    { <<"2", "0", "2", "4", "-", "0", "1", "-", "1", "5">>,
      <<"2", "0", "2", "4", "-", "0", "2", "-", "3", "0">>,
      <<"2", "0", "2", "3", "-", "0", "2", "-", "2", "9">>,
      <<"2", "0", "2", "4", "-", "0", "2", "-", "2", "9">>,
      <<"2", "0", "2", "4", "-", "1", "3", "-", "0", "1">>,
      <<"0", "0", "0", "0", "-", "0", "1", "-", "0", "1">> }
LineTimes ==
    { <<"1", "0", ":", "2", "3", ":", "4", "5">>,
      <<"2", "4", ":", "0", "0", ":", "0", "0">>,
      <<"1", "0", ":", "6", "0", ":", "0", "0">>,
      <<"1", "0", ":", "2", "3", ":", "6", "0">> }
LineTails ==
    { <<" ", "I", "N", "F", "O", " ", "x">>,
      <<" ", "I", "N", "F", "O">>,
      <<" ", "F", "A", "T", "A", "L", " ", " ", "a", " ", "b">>,
      <<>>,
      <<" ", "-", " ", "x">>,
      <<" ", "I", "N", "F", "O", " ">>,
      <<" ", "T", "r", "a", "c", "e", "_", "9", " ", "x", " ", "1">>,
      <<" ", "W", "A", "R", "N", "\t", "x">> }
StandardLines ==
    {d \o <<" ">> \o t \o tail : d \in LineDates, t \in LineTimes, tail \in LineTails}

\* combined-log lines
\*   h - - [<day><zone>] "<method> <path> <proto>" <status> <size><agent>
CombinedDays ==
    { <<"1", "5", "/", "J", "a", "n", "/", "2", "0", "2", "4", ":", "1", "0", ":", "2", "3", ":", "4", "5">>,
      <<"5", "/", "f", "e", "b", "/", "2", "0", "2", "4", ":", "1", ":", "2", ":", "3">>,
      <<"3", "2", "/", "J", "a", "n", "/", "2", "0", "2", "4", ":", "1", "0", ":", "2", "3", ":", "4", "5">>,
      <<"1", "5", "/", "F", "o", "o", "/", "2", "0", "2", "4", ":", "1", "0", ":", "2", "3", ":", "4", "5">>,
      <<"2", "9", "/", "F", "e", "b", "/", "2", "0", "2", "3", ":", "1", "0", ":", "2", "3", ":", "4", "5">> }
CombinedZones ==
    { <<>>,
      <<" ", "+", "0", "0", "0", "0">>,
      <<" ", "-", "0", "5", "0", "0">> }
CombinedDates == {d \o z : d \in CombinedDays, z \in CombinedZones}
CombinedRequests ==
    { [method |-> <<"G", "E", "T">>, path |-> <<"/", "a">>, proto |-> <<"H">>],
      [method |-> <<"P", "O", "S", "T">>, path |-> <<"/", "b", "?", "c", "=", "1">>, proto |-> <<"H", "T", "T", "P", "/", "1", ".", "1">>] }
CombinedStatuses ==
    { <<"2", "0", "0">>,
      <<"3", "9", "9">>,
      <<"4", "0", "0">>,
      <<"4", "0", "4">>,
      <<"4", "9", "9">>,
      <<"5", "0", "0">>,
      <<"5", "9", "9">>,
      <<"0", "0", "0">>,
      <<"0", "0", "7">> }
CombinedSizes ==
    { <<"1", "2">>,
      <<"-">> }
CombinedAgents ==
    { <<>>,
      <<" ", "\"", "-", "\"", " ", "\"", "M", "o", "z", "i", "l", "l", "a", "\"">>,
      <<" ", "\"", "-", "\"", " ", "\"", "c", "u", "r", "l", "\"">> }
CombinedLine(date, rq, st, sz, ag) ==
    <<"h", " ", "-", " ", "-", " ", "[">> \o date \o <<"]", " ", "\"">>
        \o rq.method \o <<" ">> \o rq.path \o <<" ">> \o rq.proto
        \o <<"\"", " ">> \o st \o <<" ">> \o sz \o ag
CombinedLines ==
    {CombinedLine(d, rq, st, sz, ag) :
        d \in CombinedDates, rq \in CombinedRequests, st \in CombinedStatuses,
        sz \in CombinedSizes, ag \in CombinedAgents}

\* JSON texts, well-formed and not
JsonLines ==
    {
      \* {"timestamp": "2024-01-15T10:23:45", "level": "error", "message": "DB failed"}
      <<"{", "\"", "t", "i", "m", "e", "s", "t", "a", "m", "p", "\"", ":", " ", "\"", "2", "0", "2", "4", "-", "0", "1", "-", "1", "5", "T", "1", "0", ":", "2", "3", ":", "4", "5", "\"", ",", " ", "\"", "l", "e", "v", "e", "l", "\"", ":", " ", "\"", "e", "r", "r", "o", "r", "\"", ",", " ", "\"", "m", "e", "s", "s", "a", "g", "e", "\"", ":", " ", "\"", "D", "B", " ", "f", "a", "i", "l", "e", "d", "\"", "}">>,
      \* {"timestamp": "2024-01-15T10:23:45"}
      <<"{", "\"", "t", "i", "m", "e", "s", "t", "a", "m", "p", "\"", ":", " ", "\"", "2", "0", "2", "4", "-", "0", "1", "-", "1", "5", "T", "1", "0", ":", "2", "3", ":", "4", "5", "\"", "}">>,
      \* {"timestamp": "2024-01-15", "msg": "m"}
      <<"{", "\"", "t", "i", "m", "e", "s", "t", "a", "m", "p", "\"", ":", " ", "\"", "2", "0", "2", "4", "-", "0", "1", "-", "1", "5", "\"", ",", " ", "\"", "m", "s", "g", "\"", ":", " ", "\"", "m", "\"", "}">>,
      \* {"timestamp":"2024-01-15 10:23","level":"warn","msg":"a","message":"b"}
      <<"{", "\"", "t", "i", "m", "e", "s", "t", "a", "m", "p", "\"", ":", "\"", "2", "0", "2", "4", "-", "0", "1", "-", "1", "5", " ", "1", "0", ":", "2", "3", "\"", ",", "\"", "l", "e", "v", "e", "l", "\"", ":", "\"", "w", "a", "r", "n", "\"", ",", "\"", "m", "s", "g", "\"", ":", "\"", "a", "\"", ",", "\"", "m", "e", "s", "s", "a", "g", "e", "\"", ":", "\"", "b", "\"", "}">>,
      \* {"timestamp": "2024-02-30T10:23:45"}
      <<"{", "\"", "t", "i", "m", "e", "s", "t", "a", "m", "p", "\"", ":", " ", "\"", "2", "0", "2", "4", "-", "0", "2", "-", "3", "0", "T", "1", "0", ":", "2", "3", ":", "4", "5", "\"", "}">>,
      \* {"timestamp": "2024-01-15T10:23:4"}
      <<"{", "\"", "t", "i", "m", "e", "s", "t", "a", "m", "p", "\"", ":", " ", "\"", "2", "0", "2", "4", "-", "0", "1", "-", "1", "5", "T", "1", "0", ":", "2", "3", ":", "4", "\"", "}">>,
      \* {"timestamp": "bad", "level": 5}
      <<"{", "\"", "t", "i", "m", "e", "s", "t", "a", "m", "p", "\"", ":", " ", "\"", "b", "a", "d", "\"", ",", " ", "\"", "l", "e", "v", "e", "l", "\"", ":", " ", "5", "}">>,
      \* {"level": "INFO"}
      <<"{", "\"", "l", "e", "v", "e", "l", "\"", ":", " ", "\"", "I", "N", "F", "O", "\"", "}">>,
      \* {}
      <<"{", "}">>,
      \*  {} 
      <<" ", "{", "}", " ">>,
      \* {"timestamp": 5}
      <<"{", "\"", "t", "i", "m", "e", "s", "t", "a", "m", "p", "\"", ":", " ", "5", "}">>,
      \* {"timestamp": null}
      <<"{", "\"", "t", "i", "m", "e", "s", "t", "a", "m", "p", "\"", ":", " ", "n", "u", "l", "l", "}">>,
      \* {"timestamp": "2024-01-15T10:23:45", "level": 5}
      <<"{", "\"", "t", "i", "m", "e", "s", "t", "a", "m", "p", "\"", ":", " ", "\"", "2", "0", "2", "4", "-", "0", "1", "-", "1", "5", "T", "1", "0", ":", "2", "3", ":", "4", "5", "\"", ",", " ", "\"", "l", "e", "v", "e", "l", "\"", ":", " ", "5", "}">>,
      \* {"timestamp": "2024-01-15T10:23:45", "level": null}
      <<"{", "\"", "t", "i", "m", "e", "s", "t", "a", "m", "p", "\"", ":", " ", "\"", "2", "0", "2", "4", "-", "0", "1", "-", "1", "5", "T", "1", "0", ":", "2", "3", ":", "4", "5", "\"", ",", " ", "\"", "l", "e", "v", "e", "l", "\"", ":", " ", "n", "u", "l", "l", "}">>,
      \* {"timestamp": "2024-01-15T10:23:45", "level": ["x"]}
      <<"{", "\"", "t", "i", "m", "e", "s", "t", "a", "m", "p", "\"", ":", " ", "\"", "2", "0", "2", "4", "-", "0", "1", "-", "1", "5", "T", "1", "0", ":", "2", "3", ":", "4", "5", "\"", ",", " ", "\"", "l", "e", "v", "e", "l", "\"", ":", " ", "[", "\"", "x", "\"", "]", "}">>,
      \* {"timestamp": "2024-01-15T10:23:45", "message": 5}
      <<"{", "\"", "t", "i", "m", "e", "s", "t", "a", "m", "p", "\"", ":", " ", "\"", "2", "0", "2", "4", "-", "0", "1", "-", "1", "5", "T", "1", "0", ":", "2", "3", ":", "4", "5", "\"", ",", " ", "\"", "m", "e", "s", "s", "a", "g", "e", "\"", ":", " ", "5", "}">>,
      \* {"timestamp": "2024-01-15T10:23:45", "timestamp": 7}
      <<"{", "\"", "t", "i", "m", "e", "s", "t", "a", "m", "p", "\"", ":", " ", "\"", "2", "0", "2", "4", "-", "0", "1", "-", "1", "5", "T", "1", "0", ":", "2", "3", ":", "4", "5", "\"", ",", " ", "\"", "t", "i", "m", "e", "s", "t", "a", "m", "p", "\"", ":", " ", "7", "}">>,
      \* {"timestamp": 7, "timestamp": "2024-01-15T10:23:45"}
      <<"{", "\"", "t", "i", "m", "e", "s", "t", "a", "m", "p", "\"", ":", " ", "7", ",", " ", "\"", "t", "i", "m", "e", "s", "t", "a", "m", "p", "\"", ":", " ", "\"", "2", "0", "2", "4", "-", "0", "1", "-", "1", "5", "T", "1", "0", ":", "2", "3", ":", "4", "5", "\"", "}">>,
      \* [1,2]
      <<"[", "1", ",", "2", "]">>,
      \* []
      <<"[", "]">>,
      \* [ ]
      <<"[", " ", "]">>,
      \* 1
      <<"1">>,
      \* -1.5e3
      <<"-", "1", ".", "5", "e", "3">>,
      \* 01
      <<"0", "1">>,
      \* 1.
      <<"1", ".">>,
      \* "abc"
      <<"\"", "a", "b", "c", "\"">>,
      \* null
      <<"n", "u", "l", "l">>,
      \* true
      <<"t", "r", "u", "e">>,
      \* false
      <<"f", "a", "l", "s", "e">>,
      \* NaN
      <<"N", "a", "N">>,
      \* -Infinity
      <<"-", "I", "n", "f", "i", "n", "i", "t", "y">>,
      \* 2024
      <<"2", "0", "2", "4">>,
      \* ["curl"]
      <<"[", "\"", "c", "u", "r", "l", "\"", "]">>,
      \* [[1], {"a": [true, null]}]
      <<"[", "[", "1", "]", ",", " ", "{", "\"", "a", "\"", ":", " ", "[", "t", "r", "u", "e", ",", " ", "n", "u", "l", "l", "]", "}", "]">>,
      \* "a<TAB>b"
      <<"\"", "a", "\t", "b", "\"">>,
      \* {bad
      <<"{", "b", "a", "d">>,
      \* {"a":}
      <<"{", "\"", "a", "\"", ":", "}">>,
      \* {"a":1,}
      <<"{", "\"", "a", "\"", ":", "1", ",", "}">>,
      \* [1,]
      <<"[", "1", ",", "]">>,
      \* {"a" 1}
      <<"{", "\"", "a", "\"", " ", "1", "}">>,
      \* "abc
      <<"\"", "a", "b", "c">>,
      \* {"a":1} x
      <<"{", "\"", "a", "\"", ":", "1", "}", " ", "x">>,
      \* nul
      <<"n", "u", "l">>,
      \* -
      <<"-">>,
      \* {"a":1
      <<"{", "\"", "a", "\"", ":", "1">>,
      \* [1 2]
      <<"[", "1", " ", "2", "]">>,
      \* {1:2}
      <<"{", "1", ":", "2", "}">>,
      \* {"a b c [e] ":""}
      <<"{", "\"", "a", " ", "b", " ", "c", " ", "[", "e", "]", " ", "\"", ":", "\"", "\"", "}">>,
      \* {"a b c [e] ":"Mozilla"}
      <<"{", "\"", "a", " ", "b", " ", "c", " ", "[", "e", "]", " ", "\"", ":", "\"", "M", "o", "z", "i", "l", "l", "a", "\"", "}">>,
      \* {"a b c [e] ":NaN,"":""}
      <<"{", "\"", "a", " ", "b", " ", "c", " ", "[", "e", "]", " ", "\"", ":", "N", "a", "N", ",", "\"", "\"", ":", "\"", "\"", "}">>,
      \* [Infinity]
      <<"[", "I", "n", "f", "i", "n", "i", "t", "y", "]">>,
      \* [1, {"a": -Infinity}]
      <<"[", "1", ",", " ", "{", "\"", "a", "\"", ":", " ", "-", "I", "n", "f", "i", "n", "i", "t", "y", "}", "]">> }

\* lines of no format, and lines at the edges of the patterns
OtherLines ==
    {
      \* (the empty line)
      <<>>,
      \* x
      <<"x">>,
      \* hello world
      <<"h", "e", "l", "l", "o", " ", "w", "o", "r", "l", "d">>,
      \* 2024-01-15 10:23:45 x [a] "b"
      <<"2", "0", "2", "4", "-", "0", "1", "-", "1", "5", " ", "1", "0", ":", "2", "3", ":", "4", "5", " ", "x", " ", "[", "a", "]", " ", "\"", "b", "\"">>,
      \* 2024-01-15T10:23:45 INFO x
      <<"2", "0", "2", "4", "-", "0", "1", "-", "1", "5", "T", "1", "0", ":", "2", "3", ":", "4", "5", " ", "I", "N", "F", "O", " ", "x">>,
      \* 2024-01-15 10:23:45<TAB>INFO x
      <<"2", "0", "2", "4", "-", "0", "1", "-", "1", "5", " ", "1", "0", ":", "2", "3", ":", "4", "5", "\t", "I", "N", "F", "O", " ", "x">>,
      \* 2024-01-15 10:23:45 INFO<TAB>x
      <<"2", "0", "2", "4", "-", "0", "1", "-", "1", "5", " ", "1", "0", ":", "2", "3", ":", "4", "5", " ", "I", "N", "F", "O", "\t", "x">>,
      \* a b c [d] "e
      <<"a", " ", "b", " ", "c", " ", "[", "d", "]", " ", "\"", "e">>,
      \* a b c [d] ""
      <<"a", " ", "b", " ", "c", " ", "[", "d", "]", " ", "\"", "\"">>,
      \* a b c [d] "e" "curl"
      <<"a", " ", "b", " ", "c", " ", "[", "d", "]", " ", "\"", "e", "\"", " ", "\"", "c", "u", "r", "l", "\"">>,
      \* a  b c [d] "e"
      <<"a", " ", " ", "b", " ", "c", " ", "[", "d", "]", " ", "\"", "e", "\"">>,
      \* a b c [] "e"
      <<"a", " ", "b", " ", "c", " ", "[", "]", " ", "\"", "e", "\"">>,
      \* a b c []] "e"
      <<"a", " ", "b", " ", "c", " ", "[", "]", "]", " ", "\"", "e", "\"">>,
      \* a b [d] "e"
      <<"a", " ", "b", " ", "[", "d", "]", " ", "\"", "e", "\"">>,
      \* a b c d [e] "f"
      <<"a", " ", "b", " ", "c", " ", "d", " ", "[", "e", "]", " ", "\"", "f", "\"">>,
      \*  a b c [d] "e"
      <<" ", "a", " ", "b", " ", "c", " ", "[", "d", "]", " ", "\"", "e", "\"">>,
      \* a b c [d]  "e"
      <<"a", " ", "b", " ", "c", " ", "[", "d", "]", " ", " ", "\"", "e", "\"">>,
      \* h - - [15/Jan/2024:10:23:45 +0000] "GET /a H" 200
      <<"h", " ", "-", " ", "-", " ", "[", "1", "5", "/", "J", "a", "n", "/", "2", "0", "2", "4", ":", "1", "0", ":", "2", "3", ":", "4", "5", " ", "+", "0", "0", "0", "0", "]", " ", "\"", "G", "E", "T", " ", "/", "a", " ", "H", "\"", " ", "2", "0", "0">>,
      \* h - - [15/Jan/2024:10:23:45 +0000] "GET /a H" 2000 1
      <<"h", " ", "-", " ", "-", " ", "[", "1", "5", "/", "J", "a", "n", "/", "2", "0", "2", "4", ":", "1", "0", ":", "2", "3", ":", "4", "5", " ", "+", "0", "0", "0", "0", "]", " ", "\"", "G", "E", "T", " ", "/", "a", " ", "H", "\"", " ", "2", "0", "0", "0", " ", "1">>,
      \* h - - [15/Jan/2024:10:23:45 +0000] "GET /a H" 007 1
      <<"h", " ", "-", " ", "-", " ", "[", "1", "5", "/", "J", "a", "n", "/", "2", "0", "2", "4", ":", "1", "0", ":", "2", "3", ":", "4", "5", " ", "+", "0", "0", "0", "0", "]", " ", "\"", "G", "E", "T", " ", "/", "a", " ", "H", "\"", " ", "0", "0", "7", " ", "1">>,
      \* h - - [15/Jan/2024:10:23:45 +0000] "GET /a" 200 1
      <<"h", " ", "-", " ", "-", " ", "[", "1", "5", "/", "J", "a", "n", "/", "2", "0", "2", "4", ":", "1", "0", ":", "2", "3", ":", "4", "5", " ", "+", "0", "0", "0", "0", "]", " ", "\"", "G", "E", "T", " ", "/", "a", "\"", " ", "2", "0", "0", " ", "1">>,
      \* h - - [15/Jan/2024:10:23:45 +0000] "GET /a H"x 200 1
      <<"h", " ", "-", " ", "-", " ", "[", "1", "5", "/", "J", "a", "n", "/", "2", "0", "2", "4", ":", "1", "0", ":", "2", "3", ":", "4", "5", " ", "+", "0", "0", "0", "0", "]", " ", "\"", "G", "E", "T", " ", "/", "a", " ", "H", "\"", "x", " ", "2", "0", "0", " ", "1">>,
      \* h - - [x] "y] "GET /a H" 200 1
      <<"h", " ", "-", " ", "-", " ", "[", "x", "]", " ", "\"", "y", "]", " ", "\"", "G", "E", "T", " ", "/", "a", " ", "H", "\"", " ", "2", "0", "0", " ", "1">>,
      \* h - - [15/Jan/2024:10:23:45] "y] "GET /a H" 200 1
      <<"h", " ", "-", " ", "-", " ", "[", "1", "5", "/", "J", "a", "n", "/", "2", "0", "2", "4", ":", "1", "0", ":", "2", "3", ":", "4", "5", "]", " ", "\"", "y", "]", " ", "\"", "G", "E", "T", " ", "/", "a", " ", "H", "\"", " ", "2", "0", "0", " ", "1">>,
      \* h - - [ 5/Jan/2024:10:23:45] "GET /a H" 200 1
      <<"h", " ", "-", " ", "-", " ", "[", " ", "5", "/", "J", "a", "n", "/", "2", "0", "2", "4", ":", "1", "0", ":", "2", "3", ":", "4", "5", "]", " ", "\"", "G", "E", "T", " ", "/", "a", " ", "H", "\"", " ", "2", "0", "0", " ", "1">>,
      \* h - - [15/Jan/2024:10:23:45:9] "GET /a H" 200 1
      <<"h", " ", "-", " ", "-", " ", "[", "1", "5", "/", "J", "a", "n", "/", "2", "0", "2", "4", ":", "1", "0", ":", "2", "3", ":", "4", "5", ":", "9", "]", " ", "\"", "G", "E", "T", " ", "/", "a", " ", "H", "\"", " ", "2", "0", "0", " ", "1">>,
      \* h - - [15/Jan/24:10:23:45] "GET /a H" 200 1
      <<"h", " ", "-", " ", "-", " ", "[", "1", "5", "/", "J", "a", "n", "/", "2", "4", ":", "1", "0", ":", "2", "3", ":", "4", "5", "]", " ", "\"", "G", "E", "T", " ", "/", "a", " ", "H", "\"", " ", "2", "0", "0", " ", "1">>,
      \* h - - [15/Jan/2024:10:23:61] "GET /a H" 200 1
      <<"h", " ", "-", " ", "-", " ", "[", "1", "5", "/", "J", "a", "n", "/", "2", "0", "2", "4", ":", "1", "0", ":", "2", "3", ":", "6", "1", "]", " ", "\"", "G", "E", "T", " ", "/", "a", " ", "H", "\"", " ", "2", "0", "0", " ", "1">>,
      \* h - - [15/Jan/2024:10:23:45] "GET /a H" 200 1x "Mozilla
      <<"h", " ", "-", " ", "-", " ", "[", "1", "5", "/", "J", "a", "n", "/", "2", "0", "2", "4", ":", "1", "0", ":", "2", "3", ":", "4", "5", "]", " ", "\"", "G", "E", "T", " ", "/", "a", " ", "H", "\"", " ", "2", "0", "0", " ", "1", "x", " ", "\"", "M", "o", "z", "i", "l", "l", "a">> }

InputLines == StandardLines \cup CombinedLines \cup JsonLines \cup OtherLines

ParserCall(name, result) ==
    /\ op' = name
    /\ args' = <<>>
    /\ ret' = result
    /\ UNCHANGED <<logs, line, window, error_counts, first,
                   logfile, self, clock, data_file>>

CallParseLogLine == ParserCall("parse_log_line", parse_log_line(line))
CallParseApacheLog == ParserCall("parse_apache_log", parse_apache_log(line))
CallParseNginxLog == ParserCall("parse_nginx_log", parse_nginx_log(line))
CallParseJsonLog == ParserCall("parse_json_log", parse_json_log(line))
CallDetectLogFormat == ParserCall("detect_log_format", detect_log_format(line))

InitParsers ==
    /\ line \in InputLines
    /\ logs = <<>>
    /\ first = <<>>
    /\ NoCall
    /\ NoLogFile
    /\ NoShortener

NextParsers ==
    \/ CallParseLogLine
    \/ CallParseApacheLog
    \/ CallParseNginxLog
    \/ CallParseJsonLog
    \/ CallDetectLogFormat

SpecParsers == InitParsers /\ [][NextParsers]_vars

Parsers == {"parse_log_line", "parse_apache_log", "parse_nginx_log", "parse_json_log"}

\* C4: every parser returns a Record or the no-record value for every input
\* line and never raises, the lines whose shape matches but whose date or
\* time is not a calendar date-time included, and the JSON lines whose value
\* is not an object or whose timestamp or level is not a string.
C4_ParsersNeverRaise ==
    op \in Parsers => ret.kind \in {"entry", "none"}

\* the literals json.loads reads that are no JSON values (RFC 8259)
NonStandardLiterals ==
    { <<"N", "a", "N">>,
      <<"I", "n", "f", "i", "n", "i", "t", "y">>,
      <<"-", "I", "n", "f", "i", "n", "i", "t", "y">> }

\* a scanned value holds one of these literals, itself or inside it
RECURSIVE HoldsNonStandardLiteral(_)
HoldsNonStandardLiteral(jv) ==
    CASE jv.t = "num" -> jv.v \in NonStandardLiterals
      [] jv.t = "arr" -> \E k \in 1..Len(jv.v) : HoldsNonStandardLiteral(jv.v[k])
      [] jv.t = "obj" -> \E k \in 1..Len(jv.v) : HoldsNonStandardLiteral(jv.v[k].value)
      [] OTHER -> FALSE

\* the line is a syntactically valid JSON value
IsJsonValue(s) ==
    JsonLoads(s).ok /\ ~HoldsNonStandardLiteral(JsonLoads(s).value)

\* the line is a JSON value, or would be one but for NaN, Infinity or
\* -Infinity standing where a number may stand
IsLenientJsonValue(s) ==
    IsJsonValue(s) \/ (JsonLoads(s).ok /\ HoldsNonStandardLiteral(JsonLoads(s).value))

\* the format of a line by the four tests in their order of priority, the
\* first of them being isJson
FormatByPriority(s, isJson) ==
    IF isJson THEN "json"
    ELSE IF CombinedShape(s) /\ HasUserAgent(s) THEN "nginx"
    ELSE IF CombinedShape(s) THEN "apache"
    ELSE IF MatchesAt(s, 1, DateTimeShape) THEN "standard"
    ELSE "unknown"

\* C8 as stated: detect_log_format returns json if the line is a
\* syntactically valid JSON value; otherwise nginx or apache if it has the
\* combined-log shape (nginx exactly when it contains "Mozilla or "curl);
\* otherwise standard if it starts with YYYY-MM-DD HH:MM:SS; otherwise
\* unknown.
C8_FormatByPriority_AsStated ==
    op = "detect_log_format" => ret = FormatByPriority(line, IsJsonValue(line))

\* C8: detect_log_format returns json if the line is a JSON value or differs
\* from one only by NaN, Infinity or -Infinity in the place of a number;
\* otherwise nginx or apache if it has the combined-log shape (nginx exactly
\* when it contains "Mozilla or "curl); otherwise standard if it starts with
\* YYYY-MM-DD HH:MM:SS; otherwise unknown.  A line that passes an earlier
\* test is never classified by a later one.
C8_FormatByPriority ==
    op = "detect_log_format" =>
        /\ ret \in {"json", "nginx", "apache", "standard", "unknown"}
        /\ ret = FormatByPriority(line, IsLenientJsonValue(line))
        /\ IsLenientJsonValue(line) => ret = "json"
        /\ (CombinedShape(line) /\ ~IsLenientJsonValue(line)) => ret \in {"nginx", "apache"}

\* C8 witness: a line of the combined-log shape that is a JSON value but for
\* a NaN, classified json
C8_Witness ==
    /\ op = "detect_log_format"
    /\ ~IsJsonValue(line)
    /\ IsLenientJsonValue(line)
    /\ CombinedShape(line)
    /\ ret = "json"


----------------------------------------------------------------------------
(* The standard parser on the lines of SpecParsers *)

\* the calendar date-time written in the first 19 characters of a line, as
\* <<date-time>>, or <<>> when they are not YYYY-MM-DD HH:MM:SS or name no
\* calendar date-time
WrittenDateTime(s) ==
    IF ~MatchesAt(s, 1, DateTimeShape) THEN <<>>
    ELSE LET F(i, j) == Num(SubSeq(s, i, j))
             dt == DateTime(F(1, 4), F(6, 7), F(9, 10), F(12, 13), F(15, 16), F(18, 19))
         IN  IF ValidDateTime(dt) THEN <<dt>> ELSE <<>>

\* the positions k at which a level token ends: the line is a date-time, a
\* blank, word characters up to k, a blank, and the message
LevelEnds(s) ==
    {k \in 21..(Len(s) - 1) :
        /\ Len(WrittenDateTime(s)) = 1
        /\ s[20] = " "
        /\ \A i \in 21..k : s[i] \in WordChars
        /\ s[k + 1] = " "}

\* C11: parse_log_line on a line 'YYYY-MM-DD HH:MM:SS <LEVEL> <message>'
\* returns the Record of the parsed date-time, the level token verbatim and
\* the remainder of the line as message, which may be empty; on any other
\* line, the empty one included, it returns no record.
C11_StandardLineParsed ==
    op = "parse_log_line" =>
        IF LevelEnds(line) = {} THEN ret = NoRecord
        ELSE \A k \in LevelEnds(line) :
                ret = Returned(LogEntry(WrittenDateTime(line)[1],
                                        Text(SubSeq(line, 21, k)),
                                        Slice(line, k + 2, Len(line))))


----------------------------------------------------------------------------
(* The combined-log parsers on the lines of SpecParsers *)

\* C12: parse_nginx_log and parse_apache_log return the same result for
\* every input line, a combined-log line whose size field is a dash
\* included: an equal Record, or no record from both.
C12_CombinedParsersAgree ==
    /\ op = "parse_nginx_log" => ret = parse_apache_log(line)
    /\ op = "parse_apache_log" => ret = parse_nginx_log(line)


\* the date-time a day of CombinedDays writes, for the days that are
\* calendar date-times
WrittenDay(day) ==
    CASE day = <<"1", "5", "/", "J", "a", "n", "/", "2", "0", "2", "4", ":", "1", "0", ":", "2", "3", ":", "4", "5">> -> DateTime(2024, 1, 15, 10, 23, 45)
      [] day = <<"5", "/", "f", "e", "b", "/", "2", "0", "2", "4", ":", "1", ":", "2", ":", "3">> -> DateTime(2024, 2, 5, 1, 2, 3)

\* the level the claim gives a status
LevelOfStatus(st) ==
    IF Num(st) >= 500 THEN "ERROR"
    ELSE IF Num(st) \in 400..499 THEN "WARN"
    ELSE "INFO"

\* a digit text without its leading zeros, the last digit kept
RECURSIVE WithoutLeadingZeros(_)
WithoutLeadingZeros(st) ==
    IF Len(st) > 1 /\ st[1] = "0" THEN WithoutLeadingZeros(Tail(st)) ELSE st

\* the Record of a combined-log line made of the given parts, the status
\* written in the message as statusText
CombinedRecordIs(day, rq, st, statusText) ==
    /\ ret.entry.level = LevelOfStatus(st)
    /\ ret.entry.message = rq.method \o <<" ">> \o rq.path \o <<" ", "-", " ">> \o statusText
    /\ ret.entry.timestamp = WrittenDay(day)

\* C13 as stated: the Record of parse_apache_log and parse_nginx_log has
\* level ERROR for a status >= 500, WARN for 400 to 499 and INFO for every
\* other status (000 to 399), its message is '<METHOD> <path> - <status>'
\* and its timestamp is the one written, whatever the timezone offset.
C13_StatusLevelAndMessage_AsStated ==
    (op \in {"parse_apache_log", "parse_nginx_log"} /\ ret.kind = "entry") =>
        \A day \in CombinedDays, z \in CombinedZones, rq \in CombinedRequests,
           st \in CombinedStatuses, sz \in CombinedSizes, ag \in CombinedAgents :
            line = CombinedLine(day \o z, rq, st, sz, ag)
                => CombinedRecordIs(day, rq, st, st)

\* C13: the Record of parse_apache_log and parse_nginx_log has level ERROR
\* for a status >= 500, WARN for 400 to 499 and INFO for every other status
\* (000 to 399), its message is '<METHOD> <path> - <n>' where n is the status
\* as a decimal number, without the leading zeros of a status below 100, and
\* its timestamp is the one written, whatever the timezone offset.
C13_StatusLevelAndMessage ==
    (op \in {"parse_apache_log", "parse_nginx_log"} /\ ret.kind = "entry") =>
        \A day \in CombinedDays, z \in CombinedZones, rq \in CombinedRequests,
           st \in CombinedStatuses, sz \in CombinedSizes, ag \in CombinedAgents :
            line = CombinedLine(day \o z, rq, st, sz, ag)
                => CombinedRecordIs(day, rq, st, WithoutLeadingZeros(st))

\* C13 witness: the Record of a line with status 007 and a timezone offset
\* other than +0000, its message ending in 7
C13_Witness ==
    /\ op = "parse_nginx_log"
    /\ ret.kind = "entry"
    /\ \E day \in CombinedDays, rq \in CombinedRequests,
          sz \in CombinedSizes, ag \in CombinedAgents :
          /\ line = CombinedLine(day \o <<" ", "-", "0", "5", "0", "0">>, rq, <<"0", "0", "7">>, sz, ag)
          /\ ret.entry.level = "INFO"
          /\ ret.entry.message = rq.method \o <<" ">> \o rq.path \o <<" ", "-", " ", "7">>


----------------------------------------------------------------------------
(* Specification SpecCli: the parser selection and the parsing loop of     *)
(* main on every log file of at most MaxFileLines lines of FileLines, for  *)
(* every --format                                                          *)

FileLines ==
    {
      \* 2024-01-15 10:23:45 ERROR x
      <<"2", "0", "2", "4", "-", "0", "1", "-", "1", "5", " ", "1", "0", ":", "2", "3", ":", "4", "5", " ", "E", "R", "R", "O", "R", " ", "x">>,
      \*   2024-01-15 10:23:46 INFO y 
      <<" ", " ", "2", "0", "2", "4", "-", "0", "1", "-", "1", "5", " ", "1", "0", ":", "2", "3", ":", "4", "6", " ", "I", "N", "F", "O", " ", "y", " ">>,
      \* h - - [15/Jan/2024:10:23:45 +0000] "GET /a H" 500 -
      <<"h", " ", "-", " ", "-", " ", "[", "1", "5", "/", "J", "a", "n", "/", "2", "0", "2", "4", ":", "1", "0", ":", "2", "3", ":", "4", "5", " ", "+", "0", "0", "0", "0", "]", " ", "\"", "G", "E", "T", " ", "/", "a", " ", "H", "\"", " ", "5", "0", "0", " ", "-">>,
      \* h - - [15/Jan/2024:10:23:45 +0000] "GET /a H" 404 12 "-" "curl"
      <<"h", " ", "-", " ", "-", " ", "[", "1", "5", "/", "J", "a", "n", "/", "2", "0", "2", "4", ":", "1", "0", ":", "2", "3", ":", "4", "5", " ", "+", "0", "0", "0", "0", "]", " ", "\"", "G", "E", "T", " ", "/", "a", " ", "H", "\"", " ", "4", "0", "4", " ", "1", "2", " ", "\"", "-", "\"", " ", "\"", "c", "u", "r", "l", "\"">>,
      \* {"timestamp": "2024-01-15T10:23:45", "level": "warn", "msg": "m"}
      <<"{", "\"", "t", "i", "m", "e", "s", "t", "a", "m", "p", "\"", ":", " ", "\"", "2", "0", "2", "4", "-", "0", "1", "-", "1", "5", "T", "1", "0", ":", "2", "3", ":", "4", "5", "\"", ",", " ", "\"", "l", "e", "v", "e", "l", "\"", ":", " ", "\"", "w", "a", "r", "n", "\"", ",", " ", "\"", "m", "s", "g", "\"", ":", " ", "\"", "m", "\"", "}">>,
      \* hello
      <<"h", "e", "l", "l", "o">>,
      \* (the empty line)
      <<>>,
      \* [1]
      <<"[", "1", "]">> }

\* cli.py 18: the choices of --format
Formats == {"standard", "apache", "nginx", "json", "auto"}

InitCli ==
    /\ logfile \in SeqUpTo(FileLines, MaxFileLines)
    /\ logs = <<>>
    /\ line = <<>>
    /\ first = <<>>
    /\ NoCall
    /\ NoShortener

RunMain == \E format_arg \in Formats : Main(format_arg)

NextCli == RunMain

SpecCli == InitCli /\ [][NextCli]_vars

\* the format tag that decides the parser: the requested one, or the one
\* detected on the first line
DecidingTag ==
    IF args[1] = "auto" THEN detect_log_format(FirstLine(logfile)) ELSE args[1]

\* the Records the parser named p gives for the lines of the file, in file
\* order, the lines without a Record left out
RecordsInFileOrder(p) ==
    LET results == [k \in 1..Len(logfile) |-> CallParser(p, Strip(logfile[k]))]
        kept == SelectSeq([k \in 1..Len(logfile) |-> k],
                          LAMBDA k : results[k].kind = "entry")
    IN  [i \in 1..Len(kept) |-> results[kept[i]].entry]

\* C14: the function main parses the file with is a parser, never None: the
\* standard parser when the requested format is standard or the detected
\* one is standard or unknown, the parser of the format when the requested
\* or detected format is apache, nginx or json; the lines for which it
\* returns no record are skipped and the records keep file order.
C14_ParserIsCallable ==
    op = "main" =>
        /\ ret.parser_func \in Parsers
        /\ ret.parser_func =
              CASE DecidingTag \in {"standard", "unknown"} -> "parse_log_line"
                [] DecidingTag = "apache" -> "parse_apache_log"
                [] DecidingTag = "nginx" -> "parse_nginx_log"
                [] DecidingTag = "json" -> "parse_json_log"
        /\ ret.raised = <<>> => logs = RecordsInFileOrder(ret.parser_func)

\* C14 witness: auto-detection on a first line of unknown format falls back
\* to the standard parser, which skips that line and parses the second
C14_Witness ==
    /\ op = "main"
    /\ args[1] = "auto"
    /\ DecidingTag = "unknown"
    /\ ret.parser_func = "parse_log_line"
    /\ Len(logfile) = 2
    /\ Len(logs) = 1


----------------------------------------------------------------------------
(* parse_json_log on JSON objects (C15), under SpecParsers                 *)

\* the names of the fields the parser reads
TimestampKey == <<"t", "i", "m", "e", "s", "t", "a", "m", "p">>
LevelKey == <<"l", "e", "v", "e", "l">>
MessageKey == <<"m", "e", "s", "s", "a", "g", "e">>
MsgKey == <<"m", "s", "g">>

\* the object has a field of that name
HasField(obj, key) == \E k \in 1..Len(obj.v) : obj.v[k].key = key

\* the value of the field: the one written last under that name
FieldOf(obj, key) ==
    LET k == CHOOSE k \in 1..Len(obj.v) :
                 /\ obj.v[k].key = key
                 /\ \A h \in (k + 1)..Len(obj.v) : obj.v[h].key # key
    IN  obj.v[k].value

\* the object has a timestamp field that holds a valid ISO-8601 date-time
HasValidTimestamp(obj) ==
    /\ HasField(obj, TimestampKey)
    /\ FieldOf(obj, TimestampKey).t = "str"
    /\ FromIsoFormat(FieldOf(obj, TimestampKey).v).ok

\* the message the Record of an object holds: the message field, else the
\* msg field, else the empty string
MessageOf(obj) ==
    IF HasField(obj, MessageKey) THEN PyValue(FieldOf(obj, MessageKey))
    ELSE IF HasField(obj, MsgKey) THEN PyValue(FieldOf(obj, MsgKey))
    ELSE <<>>

\* C15: parse_json_log on a JSON object with a valid ISO-8601 timestamp
\* returns a Record whose level is the object's level upper-cased, or INFO
\* when level is absent, and whose message is the message field if present,
\* otherwise the msg field, otherwise the empty string; an object with no
\* timestamp field or an unparseable timestamp yields no record.
C15_JsonObjectParsed ==
    (op = "parse_json_log" /\ JsonLoads(line).ok /\ JsonLoads(line).value.t = "obj") =>
        LET obj == JsonLoads(line).value
        IN  IF HasValidTimestamp(obj)
            THEN /\ ret.kind = "entry"
                 /\ ret.entry.timestamp = FromIsoFormat(FieldOf(obj, TimestampKey).v).value
                 /\ ~HasField(obj, LevelKey) => ret.entry.level = "INFO"
                 /\ (HasField(obj, LevelKey) /\ FieldOf(obj, LevelKey).t = "str")
                        => ret.entry.level = Text(Upper(FieldOf(obj, LevelKey).v))
                 /\ ret.entry.message = MessageOf(obj)
            ELSE ret = NoRecord


----------------------------------------------------------------------------
(* URL shortener: src/url_shortener/shortener.py and utils.py.             *)
(* The URLShortener object is the record of its attributes; a dict is a    *)
(* function on its keys; a URL, a short URL and a short code are sequences *)
(* of characters, a user id is a string.  time.time() is a whole number of *)
(* seconds.  The data file is <<>> while it does not exist and <<data>>    *)
(* once written, data being the dict _save_data dumps.  A method is the    *)
(* operator from the object, the file and the time to the object and the   *)
(* file it leaves and to what it returns or raises.                        *)

\* d[k] = v and del d[k]
SetItem(d, k, v) == [x \in (DOMAIN d) \cup {k} |-> IF x = k THEN v ELSE d[x]]
DelItem(d, k) == [x \in (DOMAIN d) \ {k} |-> d[x]]

\* list(a_set): the members in some order
ListOf(S) == CHOOSE q \in [1..Cardinality(S) -> S] : Range(q) = S

\* what a method leaves and gives
Outcome(obj, file, result) == [self |-> obj, file |-> file, ret |-> result]

\* shortener.py 186-200, mutated: the analytics are not written
save_data_NoAnalytics(obj) ==
    << [counter      |-> obj.counter,
        url_to_short |-> obj.url_to_short,
        short_to_url |-> obj.short_to_url,
        expiration   |-> obj.expiration,
        analytics    |-> <<>>,
        custom_codes |-> ListOf(obj.custom_codes)] >>

\* shortener.py 186-200: the file _save_data writes
save_data(obj) ==
    << [counter      |-> obj.counter,
        url_to_short |-> obj.url_to_short,
        short_to_url |-> obj.short_to_url,
        expiration   |-> obj.expiration,
        analytics    |-> obj.analytics,
        custom_codes |-> ListOf(obj.custom_codes)] >>

\* shortener.py 202-216: the object after _load_data
load_data(obj, file) ==
    IF Len(file) = 0 THEN obj                                \* FileNotFoundError
    ELSE [obj EXCEPT !.counter      = file[1].counter,
                     !.url_to_short = file[1].url_to_short,
                     !.short_to_url = file[1].short_to_url,
                     !.expiration   = file[1].expiration,
                     !.analytics    = file[1].analytics,
                     !.custom_codes = Range(file[1].custom_codes)]

\* shortener.py 7: the default base_url, http://short.url/
DefaultBaseUrl ==
    <<"h", "t", "t", "p", ":", "/", "/", "s", "h", "o", "r", "t", ".", "u", "r", "l", "/">>

\* shortener.py 7-27: URLShortener() on the data file
URLShortener(file) ==
    load_data([base_url          |-> DefaultBaseUrl,
               counter           |-> 0,
               url_to_short      |-> <<>>,
               short_to_url      |-> <<>>,
               expiration        |-> <<>>,
               analytics         |-> <<>>,
               custom_codes      |-> {},
               rate_limit_window |-> 60,
               rate_limit_max    |-> 10,
               request_log       |-> <<>>], file)

\* tests/test_shortener.py 189-193: the shortener of the rate limiting
\* tests: a URLShortener whose rate_limit_max the caller has lowered
Configured(file) == [URLShortener(file) EXCEPT !.rate_limit_max = RateLimitMax]

\* shortener.py 34: chars
DigitChars == <<"0", "1", "2", "3", "4", "5", "6", "7", "8", "9">>
Base62Chars == LowerLetters \o UpperLetters \o DigitChars

\* shortener.py 38-42: the loop, num >= 0 on entry
RECURSIVE CodeLoop(_, _)
CodeLoop(num, code) ==
    LET longer == <<Base62Chars[(num % 62) + 1]>> \o code
        rest   == (num \div 62) - 1
    IN  IF rest < 0 THEN longer ELSE CodeLoop(rest, longer)

\* shortener.py 33-45: the code, and the object with the counter advanced
generate_short_code(obj) ==
    [self |-> [obj EXCEPT !.counter = @ + 1],
     code |-> CodeLoop(obj.counter, <<>>)]

\* utils.py 7: urlparse(url).scheme: the text before the first colon when
\* it is a letter followed by letters, digits, "+", "-" and ".", lower-cased
UrlScheme(url) ==
    LET colon == FirstIn(url, 1, {":"})
        Alpha == Range(LowerLetters) \cup Range(UpperLetters)
    IN  IF /\ 1 < colon
           /\ colon <= Len(url)
           /\ url[1] \in Alpha
           /\ \A i \in 1..(colon - 1) : url[i] \in Alpha \cup Digits \cup {"+", "-", "."}
        THEN Lower(SubSeq(url, 1, colon - 1))
        ELSE <<>>

\* utils.py 7: urlparse(url).netloc: what follows "//" after the scheme, up
\* to the first "/", "?" or "#"
UrlNetloc(url) ==
    LET start == IF Len(UrlScheme(url)) = 0 THEN 1 ELSE Len(UrlScheme(url)) + 2
    IN  IF TextAt(url, start, <<"/", "/">>)
        THEN Slice(url, start + 2, FirstIn(url, start + 2, {"/", "?", "#"}) - 1)
        ELSE <<>>

\* utils.py 16: [a-zA-Z0-9]([a-zA-Z0-9-]{0,61}[a-zA-Z0-9])? matches all of label
IsDomainLabel(label) ==
    LET AlNum == Range(LowerLetters) \cup Range(UpperLetters) \cup Digits
    IN  /\ Len(label) \in 1..63
        /\ label[1] \in AlNum
        /\ label[Len(label)] \in AlNum
        /\ \A i \in 1..Len(label) : label[i] \in AlNum \cup {"-"}

\* utils.py 15-19: domain_pattern matches host: labels with dots between
IsDomain(host) ==
    LET dots == {i \in 1..Len(host) : host[i] = "."}
        ends == dots \cup {Len(host) + 1}
    IN  \A e \in ends :
            LET before == {d \in dots : d < e}
                start  == IF before = {} THEN 1
                          ELSE 1 + CHOOSE d \in before : \A b \in before : b <= d
            IN  IsDomainLabel(Slice(host, start, e - 1))

\* utils.py 4-21
is_valid_url(url) ==
    LET scheme == UrlScheme(url)
        netloc == UrlNetloc(url)
    IN  IF Len(scheme) = 0 \/ Len(netloc) = 0 THEN FALSE
        ELSE IF scheme \notin {<<"h", "t", "t", "p">>, <<"h", "t", "t", "p", "s">>}
        THEN FALSE
        ELSE IsDomain(Slice(netloc, 1, FirstIn(netloc, 1, {":"}) - 1))

\* str.isalnum(), mutated: a hyphen passes, too
IsAlnum_WithHyphen(s) ==
    /\ Len(s) > 0
    /\ \A i \in 1..Len(s) :
           s[i] \in Range(LowerLetters) \cup Range(UpperLetters) \cup Digits \cup {"-"}

\* str.isalnum()
IsAlnum(s) ==
    /\ Len(s) > 0
    /\ \A i \in 1..Len(s) :
           s[i] \in Range(LowerLetters) \cup Range(UpperLetters) \cup Digits

\* s.replace(old, ''): s without the occurrences of old, found from the left
RECURSIVE Replace(_, _)
Replace(s, old) ==
    IF Len(s) = 0 \/ Len(old) = 0 THEN s
    ELSE IF TextAt(s, 1, old) /\ Len(old) <= Len(s)
    THEN Replace(Slice(s, Len(old) + 1, Len(s)), old)
    ELSE <<s[1]>> \o Replace(Tail(s), old)

\* shortener.py 172, mutated: a request window seconds old is still counted
StillCounted_Inclusive(now, t, rate_limit_window) == now - t <= rate_limit_window

\* shortener.py 172: the request at t is kept in the log at now
StillCounted(now, t, rate_limit_window) == now - t < rate_limit_window

\* shortener.py 162-181: the object with the log of user_id updated, and
\* whether the request passes
check_rate_limit(obj, user_id, now) ==
    LET logged == IF user_id \in DOMAIN obj.request_log
                  THEN obj.request_log[user_id] ELSE <<>>
        recent == SelectSeq(logged, LAMBDA t : StillCounted(now, t, obj.rate_limit_window))
    IN  IF Len(recent) >= obj.rate_limit_max
        THEN [self |-> [obj EXCEPT !.request_log = SetItem(@, user_id, recent)],
              ok   |-> FALSE]
        ELSE [self |-> [obj EXCEPT !.request_log = SetItem(@, user_id, Append(recent, now))],
              ok   |-> TRUE]

\* shortener.py 218-231, mutated: the analytics entry of the code is kept
remove_url_KeepsAnalytics(obj, short_code) ==
    LET o1 == IF short_code \in DOMAIN obj.short_to_url
              THEN LET original_url == obj.short_to_url[short_code]
                   IN  [obj EXCEPT !.short_to_url = DelItem(@, short_code),
                                   !.url_to_short =
                                       IF original_url \in DOMAIN @
                                       THEN DelItem(@, original_url) ELSE @]
              ELSE obj
        o2 == [o1 EXCEPT !.expiration = IF short_code \in DOMAIN @
                                        THEN DelItem(@, short_code) ELSE @,
                         !.custom_codes = @ \ {short_code}]
    IN  [self |-> o2, file |-> save_data(o2)]

\* shortener.py 218-231: the object and the file after _remove_url
remove_url(obj, short_code) ==
    LET o1 == IF short_code \in DOMAIN obj.short_to_url
              THEN LET original_url == obj.short_to_url[short_code]
                   IN  [obj EXCEPT !.short_to_url = DelItem(@, short_code),
                                   !.url_to_short =
                                       IF original_url \in DOMAIN @
                                       THEN DelItem(@, original_url) ELSE @]
              ELSE obj
        o2 == [o1 EXCEPT !.expiration = IF short_code \in DOMAIN @
                                        THEN DelItem(@, short_code) ELSE @,
                         !.analytics  = IF short_code \in DOMAIN @
                                        THEN DelItem(@, short_code) ELSE @,
                         !.custom_codes = @ \ {short_code}]
    IN  [self |-> o2, file |-> save_data(o2)]

\* the messages of the ValueErrors
RateLimitExceeded == Raised("Rate limit exceeded. Please wait before making more requests.")
InvalidUrl == Raised("Invalid URL format. Must be a valid http/https URL.")
CodeInUse == Raised("Custom code is already in use.")
CodeLength == Raised("Custom code must be 3-20 characters.")
CodeNotAlnum == Raised("Custom code must be alphanumeric.")
NotFound == Raised("Short URL not found!")
HasExpired == Raised("Short URL has expired!")

\* shortener.py 64 and 114, mutated: expired at the time of expiry already
IsExpired_AtDeadline(obj, short_code, now) ==
    /\ short_code \in DOMAIN obj.expiration
    /\ now >= obj.expiration[short_code]

\* shortener.py 64 and 114: time.time() > self.expiration[short_code]
IsExpired(obj, short_code, now) ==
    /\ short_code \in DOMAIN obj.expiration
    /\ now > obj.expiration[short_code]

\* shortener.py 85-99: the mapping stored under short_code, saved and returned
Store(obj, now, original_url, short_code, expires_in_hours) ==
    LET o1 == [obj EXCEPT !.url_to_short = SetItem(@, original_url, short_code),
                          !.short_to_url = SetItem(@, short_code, original_url)]
        o2 == IF expires_in_hours # 0
              THEN [o1 EXCEPT !.expiration =
                        SetItem(@, short_code, now + expires_in_hours * 3600)]
              ELSE o1
        o3 == [o2 EXCEPT !.analytics =
                  SetItem(@, short_code, [clicks |-> 0, timestamps |-> <<>>])]
    IN  Outcome(o3, save_data(o3), Returned(o3.base_url \o short_code))

\* shortener.py 72-99: the URL is not shortened yet; custom_code <<>> is
\* None (or ''), expires_in_hours 0 is None (or 0)
ShortenNew(obj, file, now, original_url, custom_code, expires_in_hours) ==
    IF Len(custom_code) # 0
    THEN IF custom_code \in DOMAIN obj.short_to_url THEN Outcome(obj, file, CodeInUse)
         ELSE IF Len(custom_code) < 3 \/ Len(custom_code) > 20
         THEN Outcome(obj, file, CodeLength)
         ELSE IF ~IsAlnum(custom_code) THEN Outcome(obj, file, CodeNotAlnum)
         ELSE Store([obj EXCEPT !.custom_codes = @ \cup {custom_code}],
                    now, original_url, custom_code, expires_in_hours)
    ELSE LET generated == generate_short_code(obj)
         IN  Store(generated.self, now, original_url, generated.code, expires_in_hours)

\* shortener.py 50-99
shorten(obj, file, now, original_url, custom_code, expires_in_hours, user_id) ==
    LET checked == check_rate_limit(obj, user_id, now)
        o1 == checked.self
    IN  IF ~checked.ok THEN Outcome(o1, file, RateLimitExceeded)
        ELSE IF ~is_valid_url(original_url) THEN Outcome(o1, file, InvalidUrl)
        ELSE IF original_url \in DOMAIN o1.url_to_short
        THEN LET existing_code == o1.url_to_short[original_url]
             IN  IF IsExpired(o1, existing_code, now)
                 THEN LET removed == remove_url(o1, existing_code)
                      IN  ShortenNew(removed.self, removed.file, now, original_url,
                                     custom_code, expires_in_hours)
                 ELSE Outcome(o1, file, Returned(o1.base_url \o existing_code))
        ELSE ShortenNew(o1, file, now, original_url, custom_code, expires_in_hours)

\* shortener.py 104-126; the timestamp of a click is the time of the call
expand(obj, file, now, short_url, track_click) ==
    LET short_code == Replace(short_url, obj.base_url)
    IN  IF short_code \notin DOMAIN obj.short_to_url THEN Outcome(obj, file, NotFound)
        ELSE IF IsExpired(obj, short_code, now)
        THEN LET removed == remove_url(obj, short_code)
             IN  Outcome(removed.self, removed.file, HasExpired)
        ELSE IF track_click /\ short_code \in DOMAIN obj.analytics
        THEN LET o1 == [obj EXCEPT !.analytics =
                           SetItem(@, short_code,
                               [clicks     |-> @[short_code].clicks + 1,
                                timestamps |-> Append(@[short_code].timestamps, now)])]
             IN  Outcome(o1, save_data(o1), Returned(o1.short_to_url[short_code]))
        ELSE Outcome(obj, file, Returned(obj.short_to_url[short_code]))


----------------------------------------------------------------------------
(* The calls on the URL shortener.  Each action is one whole call.  The    *)
(* history variable `first` records what the calls returned: issued, the   *)
(* short URLs handed out with the URL and the expiry asked for; latest,    *)
(* per URL the short URL handed out last; accepted, per user the times of  *)
(* the calls that passed the rate check and are less than a window old;    *)
(* calls, the number of calls made.                                        *)

NotLogAnalysis ==
    /\ logs = <<>>
    /\ line = <<>>
    /\ window = <<>>
    /\ error_counts = <<>>
    /\ logfile = <<>>

NoHistory == [issued |-> {}, latest |-> <<>>, accepted |-> <<>>, calls |-> 0]

\* the accepted calls of a user on record
AcceptedOf(user_id) ==
    IF user_id \in DOMAIN first.accepted THEN first.accepted[user_id] ELSE <<>>

\* the URL has a short URL that has not expired
Unexpired(obj, short_code, now) ==
    short_code \notin DOMAIN obj.expiration \/ now <= obj.expiration[short_code]
AlreadyShortened(obj, original_url, now) ==
    /\ original_url \in DOMAIN obj.url_to_short
    /\ Unexpired(obj, obj.url_to_short[original_url], now)

\* shorten(original_url, custom_code, expires_in_hours, user_id)
ShortenCall(original_url, custom_code, expires_in_hours, user_id) ==
    LET r == shorten(self, data_file, clock, original_url, custom_code,
                     expires_in_hours, user_id)
        issuedNow == r.ret.kind = "entry" /\ ~AlreadyShortened(self, original_url, clock)
    IN  /\ first.calls < MaxCalls
        /\ op' = "shorten"
        /\ args' = <<original_url, custom_code, expires_in_hours, user_id>>
        /\ ret' = r.ret
        /\ self' = r.self
        /\ data_file' = r.file
        /\ first' =
             [issued   |-> IF issuedNow
                           THEN first.issued \cup
                                  {[short_url |-> r.ret.entry,
                                    url       |-> original_url,
                                    lasting   |-> expires_in_hours = 0,
                                    until     |-> clock + expires_in_hours * 3600]}
                           ELSE first.issued,
              latest   |-> IF issuedNow
                           THEN SetItem(first.latest, original_url, r.ret.entry)
                           ELSE first.latest,
              accepted |-> IF r.ret # RateLimitExceeded
                           THEN SetItem(first.accepted, user_id,
                                        Append(AcceptedOf(user_id), clock))
                           ELSE first.accepted,
              calls    |-> first.calls + 1]
        /\ UNCHANGED <<logs, line, window, error_counts, logfile, clock>>

\* the clicks counted for the short code of a short URL
ClicksOf(short_url) ==
    LET short_code == Replace(short_url, self.base_url)
    IN  IF short_code \in DOMAIN self.analytics
        THEN self.analytics[short_code].clicks ELSE 0

\* expand(short_url, track_click)
ExpandCall(short_url, track_click) ==
    LET r == expand(self, data_file, clock, short_url, track_click)
    IN  /\ first.calls < MaxCalls
        /\ track_click => ClicksOf(short_url) < MaxClicks
        /\ op' = "expand"
        /\ args' = <<short_url, track_click>>
        /\ ret' = r.ret
        /\ self' = r.self
        /\ data_file' = r.file
        /\ first' = [first EXCEPT !.calls = @ + 1]
        /\ UNCHANGED <<logs, line, window, error_counts, logfile, clock>>

\* time passes until the instant t
TickTo(t) ==
    /\ t > clock
    /\ clock' = t
    /\ op' = "sleep"
    /\ args' = <<t>>
    /\ ret' = <<>>
    /\ first' = [first EXCEPT !.accepted =
                    [u \in DOMAIN @ |->
                        SelectSeq(@[u], LAMBDA x : x > t - self.rate_limit_window)]]
    /\ UNCHANGED <<logs, line, window, error_counts, logfile, self, data_file>>

----------------------------------------------------------------------------
(* Specification SpecShortener: shorten and expand on one shortener, at     *)
(* the instants before, at and just after the expiry of a one-hour short  *)
(* URL.                                                                    *)

\* the arguments of the shorten calls; custom_code <<>> is None and
\* expires_in_hours 0 is None
Requests ==
    {
      \* http://a.co with no options
      [original_url |-> <<"h", "t", "t", "p", ":", "/", "/", "a", ".", "c", "o">>, custom_code |-> <<>>, expires_in_hours |-> 0],
      \* http://a.co to expire in an hour
      [original_url |-> <<"h", "t", "t", "p", ":", "/", "/", "a", ".", "c", "o">>, custom_code |-> <<>>, expires_in_hours |-> 1],
      \* http://a.co as aaa, to expire in an hour
      [original_url |-> <<"h", "t", "t", "p", ":", "/", "/", "a", ".", "c", "o">>, custom_code |-> <<"a", "a", "a">>, expires_in_hours |-> 1],
      \* https://b.io/x with no options
      [original_url |-> <<"h", "t", "t", "p", "s", ":", "/", "/", "b", ".", "i", "o", "/", "x">>, custom_code |-> <<>>, expires_in_hours |-> 0],
      \* https://b.io/x as aaa
      [original_url |-> <<"h", "t", "t", "p", "s", ":", "/", "/", "b", ".", "i", "o", "/", "x">>, custom_code |-> <<"a", "a", "a">>, expires_in_hours |-> 0],
      \* https://b.io/x as ab, too short a code
      [original_url |-> <<"h", "t", "t", "p", "s", ":", "/", "/", "b", ".", "i", "o", "/", "x">>, custom_code |-> <<"a", "b">>, expires_in_hours |-> 0],
      \* https://b.io/x as a-b, not an alphanumeric code
      [original_url |-> <<"h", "t", "t", "p", "s", ":", "/", "/", "b", ".", "i", "o", "/", "x">>, custom_code |-> <<"a", "-", "b">>, expires_in_hours |-> 0],
      \* ftp://a.co, not a valid URL
      [original_url |-> <<"f", "t", "p", ":", "/", "/", "a", ".", "c", "o">>, custom_code |-> <<>>, expires_in_hours |-> 0] }

\* the data file at the start: none, or the file of an earlier run that
\* handed out the codes "a" to "99" (62 + 62 * 62 = 3906 of them), all of
\* them expired and removed since; the code of counter 3906 is "aaa"
StartFiles ==
    { <<>>,
      << [counter |-> 3906, url_to_short |-> <<>>, short_to_url |-> <<>>,
          expiration |-> <<>>, analytics |-> <<>>, custom_codes |-> <<>>] >> }

ShortenerInstants == {0, 3600, 3601}

\* the short URLs asked for: those handed out, and one never handed out
ShortUrls ==
    {i.short_url : i \in first.issued} \cup {DefaultBaseUrl \o <<"z", "z">>}

InitShortener ==
    /\ NotLogAnalysis
    /\ op = "none"
    /\ args = <<>>
    /\ ret = <<>>
    /\ clock = 0
    /\ data_file \in StartFiles
    /\ self = Configured(data_file)
    /\ first = NoHistory

DoShorten ==
    \E q \in Requests :
        ShortenCall(q.original_url, q.custom_code, q.expires_in_hours, "default")
DoExpand == \E s \in ShortUrls, t \in BOOLEAN : ExpandCall(s, t)
DoTick == \E t \in ShortenerInstants : TickTo(t)

NextShortener == DoShorten \/ DoExpand \/ DoTick

SpecShortener == InitShortener /\ [][NextShortener]_vars


----------------------------------------------------------------------------
(* Round trip and uniqueness of short codes (C16, C17), under              *)
(* SpecShortener                                                           *)

\* the short URL was handed out for some URL and has not expired: it was to
\* last, or the time asked for has not passed
IssuedAndValid(i) == i.lasting \/ clock <= i.until

\* C16: once shorten(u) has returned the short URL s, expand(s) returns u at
\* any later point, after any intervening shorten and expand calls, as long
\* as s has not expired.
C16_RoundTrip ==
    op = "expand" =>
        \A i \in first.issued :
            (i.short_url = args[1] /\ IssuedAndValid(i)) => ret = Returned(i.url)

\* url_to_short and short_to_url are inverse mappings of each other
InverseMappings(obj) ==
    /\ \A u \in DOMAIN obj.url_to_short :
           /\ obj.url_to_short[u] \in DOMAIN obj.short_to_url
           /\ obj.short_to_url[obj.url_to_short[u]] = u
    /\ \A c \in DOMAIN obj.short_to_url :
           /\ obj.short_to_url[c] \in DOMAIN obj.url_to_short
           /\ obj.url_to_short[obj.short_to_url[c]] = c

\* a shorten call leaves every code in use with the URL it stands for
CodesKept ==
    op' = "shorten" =>
        \A c \in DOMAIN self.short_to_url :
            c \in DOMAIN self'.short_to_url =>
                self'.short_to_url[c] = self.short_to_url[c]

\* C17: two different URLs never share a short code: after any sequence of
\* shorten calls, with generated and custom codes, url_to_short and
\* short_to_url are inverse mappings of each other, and a code in use is
\* never assigned to another URL by a later shorten call.
C17_CodesUnique == []InverseMappings(self) /\ [][CodesKept]_vars


----------------------------------------------------------------------------
(* Repeated shorten (C18), under SpecShortener                             *)

\* the attributes the data file holds
Persisted(obj) ==
    [counter      |-> obj.counter,
     url_to_short |-> obj.url_to_short,
     short_to_url |-> obj.short_to_url,
     expiration   |-> obj.expiration,
     analytics    |-> obj.analytics,
     custom_codes |-> obj.custom_codes]

\* the step is a shorten call for a URL that is shortened and not expired
RepeatedShorten ==
    /\ op' = "shorten"
    /\ AlreadyShortened(self, args'[1], clock)

\* the call returns the short URL the URL was given
SameShortUrl == ret' = Returned(first.latest[args'[1]])

\* the user of the call has used up the rate limit
LimitReached == Len(AcceptedOf(args'[4])) >= self.rate_limit_max

\* C18 as stated: shorten(u) for a URL that is already shortened and not
\* expired returns the same short URL as the first call and leaves
\* url_to_short, short_to_url, the counter, expiration, analytics and
\* custom_codes unchanged, whatever custom_code or expires_in_hours the
\* repeated call passes.
C18_RepeatedShorten_AsStated ==
    [][RepeatedShorten => (SameShortUrl /\ Persisted(self') = Persisted(self))]_vars

\* C18, amended: the repeated call returns the same short URL unless its
\* user has used up the rate limit, in which case it raises 'Rate limit
\* exceeded'; either way url_to_short, short_to_url, the counter,
\* expiration, analytics and custom_codes are left unchanged.
C18_RepeatedShorten ==
    [][RepeatedShorten =>
          /\ IF LimitReached THEN ret' = RateLimitExceeded ELSE SameShortUrl
          /\ Persisted(self') = Persisted(self)]_vars

\* C18 witness: a call that asks for the custom code aaa and an expiry for
\* a URL that has the generated code a gets the short URL of a, and the
\* code is still without an expiry
C18_Witness ==
    /\ op = "shorten"
    /\ args[2] = <<"a", "a", "a">>
    /\ args[3] = 1
    /\ ret = Returned(DefaultBaseUrl \o <<"a">>)
    /\ first.latest[args[1]] = DefaultBaseUrl \o <<"a">>
    /\ <<"a">> \notin DOMAIN self.expiration


----------------------------------------------------------------------------
(* Persistence (C20), under SpecShortener                                  *)

\* C20: after any shorten or expand call has completed, by returning or by
\* raising, a new URLShortener constructed on the same data file has the
\* same url_to_short, short_to_url, expiration, analytics, custom_codes and
\* counter as the running instance, so every short URL issued by the old
\* instance expands in the new one as it does in the old one.
C20_Persistence ==
    op \in {"shorten", "expand"} =>
        /\ Persisted(URLShortener(data_file)) = Persisted(self)
        /\ \A i \in first.issued :
               expand(URLShortener(data_file), data_file, clock, i.short_url, TRUE).ret
                   = expand(self, data_file, clock, i.short_url, TRUE).ret

\* C20 witness: a click has been counted for a short URL with a generated
\* code, and the new instance knows the click and the counter
C20_Witness ==
    /\ op = "expand"
    /\ ret.kind = "entry"
    /\ args[2]
    /\ self.counter > 0
    /\ ClicksOf(args[1]) = 1
    /\ URLShortener(data_file).counter = self.counter
    /\ URLShortener(data_file).analytics = self.analytics


----------------------------------------------------------------------------
(* Specification SpecRateLimit: the shorten calls of two users, at the     *)
(* start, one second before the end of the rate limit window and at its    *)
(* end.                                                                    *)

Users == {"default", "other"}

\* http://a.co and, not valid, ftp://a.co
RateUrls ==
    { <<"h", "t", "t", "p", ":", "/", "/", "a", ".", "c", "o">>,
      <<"f", "t", "p", ":", "/", "/", "a", ".", "c", "o">> }

RateInstants == {0, 59, 60}

InitRateLimit ==
    /\ NotLogAnalysis
    /\ op = "none"
    /\ args = <<>>
    /\ ret = <<>>
    /\ clock = 0
    /\ data_file = <<>>
    /\ self = Configured(data_file)
    /\ first = NoHistory

UserShortens == \E u \in RateUrls, user_id \in Users : ShortenCall(u, <<>>, 0, user_id)
RateTick == \E t \in RateInstants : TickTo(t)

NextRateLimit == UserShortens \/ RateTick

SpecRateLimit == InitRateLimit /\ [][NextRateLimit]_vars

\* no user has more than rate_limit_max accepted calls within a window
WithinLimit ==
    \A u \in DOMAIN first.accepted : Len(first.accepted[u]) <= self.rate_limit_max

\* a shorten call is rejected exactly when its user has used up the limit
RejectedWhenLimitReached ==
    op' = "shorten" => ((ret' = RateLimitExceeded) <=> LimitReached)

\* C19: a shorten call by user_id u is rejected with 'Rate limit exceeded'
\* exactly when u already has rate_limit_max accepted calls within the
\* preceding rate_limit_window seconds; so in any window of that length at
\* most rate_limit_max calls of one user pass the check, rejected calls are
\* not counted, calls of other users never count against u, and u is
\* accepted again once its oldest counted call is rate_limit_window
\* seconds old.
C19_RateLimit == []WithinLimit /\ [][RejectedWhenLimitReached]_vars

\* C19 witness: a call of the default user is rejected one second before
\* the window of its earlier calls ends, while the other user has an
\* accepted call on record
C19_Witness ==
    /\ op = "shorten"
    /\ args[4] = "default"
    /\ ret = RateLimitExceeded
    /\ clock = 59
    /\ Len(AcceptedOf("default")) = self.rate_limit_max
    /\ Len(AcceptedOf("other")) = 1


----------------------------------------------------------------------------
(* Click tracking (C21), under SpecShortener                               *)

\* the short code of a short URL handed out: what follows the base URL
CodeIn(short_url) == Slice(short_url, Len(self.base_url) + 1, Len(short_url))

\* the clicks and the number of click timestamps on record for a code
Clicks(obj, short_code) == obj.analytics[short_code].clicks
Stamps(obj, short_code) == Len(obj.analytics[short_code].timestamps)

\* the step is a shorten call that makes a new mapping
NewlyShortened ==
    /\ op' = "shorten"
    /\ ret'.kind = "entry"
    /\ ~AlreadyShortened(self, args'[1], clock)

\* the step is a shorten call that replaces the expired code of its URL
Replaces(short_code) ==
    /\ op' = "shorten"
    /\ args'[1] \in DOMAIN self.url_to_short
    /\ self.url_to_short[args'[1]] = short_code
    /\ ~Unexpired(self, short_code, clock)

\* the step is a successful expand of the code with track_click = True
TrackedExpand(short_code) ==
    /\ op' = "expand"
    /\ ret'.kind = "entry"
    /\ args'[2]
    /\ args'[1] = self.base_url \o short_code

\* a call changes the clicks on record as the claim says
ClicksStep ==
    /\ NewlyShortened =>
           /\ CodeIn(ret'.entry) \in DOMAIN self'.analytics
           /\ Clicks(self', CodeIn(ret'.entry)) = 0
           /\ Stamps(self', CodeIn(ret'.entry)) = 0
    /\ \A c \in (DOMAIN self.analytics) \cap (DOMAIN self'.analytics) :
           IF TrackedExpand(c)
           THEN /\ Clicks(self', c) = Clicks(self, c) + 1
                /\ Stamps(self', c) = Stamps(self, c) + 1
           ELSE Replaces(c) \/ /\ Clicks(self', c) = Clicks(self, c)
                               /\ Stamps(self', c) = Stamps(self, c)

\* C21: a newly shortened code starts with 0 clicks; each successful expand
\* with track_click=True adds exactly 1 to the code's click count and
\* exactly one timestamp; a failing expand, an expand with
\* track_click=False and every shorten call leave the click counts of all
\* existing codes unchanged (so a code's click count is the number of
\* successful tracked expands since it was created).
C21_ClickTracking == [][ClicksStep]_vars


----------------------------------------------------------------------------
(* Refused shorten calls (C22), under SpecShortener                        *)

\* the text is not made of letters and digits only
NotAlphanumeric(code) ==
    \E i \in 1..Len(code) :
        code[i] \notin Range(LowerLetters) \cup Range(UpperLetters) \cup Digits

\* a custom code the claim says is refused, given the codes in use
Refusable(code, inUse) ==
    /\ Len(code) > 0
    /\ \/ code \in inUse
       \/ Len(code) < 3
       \/ Len(code) > 20
       \/ NotAlphanumeric(code)

\* the call raised a ValueError
RaisedValueError == ret'.kind = "raised"

Dropped ==
    IF args'[1] \in DOMAIN self.url_to_short
          /\ ~Unexpired(self, self.url_to_short[args'[1]], clock)
    THEN {self.url_to_short[args'[1]]}
    ELSE {}

\* the dict after is the dict before without the entries of the keys in gone
Without(before, after, gone) ==
    /\ DOMAIN after = (DOMAIN before) \ gone
    /\ \A k \in DOMAIN after : after[k] = before[k]

\* nothing is new after the call, and what is gone belongs to a dropped code
NoMappingCreated ==
    /\ self'.counter = self.counter
    /\ Without(self.short_to_url, self'.short_to_url, Dropped)
    /\ Without(self.expiration, self'.expiration, Dropped)
    /\ Without(self.analytics, self'.analytics, Dropped)
    /\ self'.custom_codes = self.custom_codes \ Dropped
    /\ Without(self.url_to_short, self'.url_to_short,
               {self.short_to_url[c] : c \in Dropped \cap DOMAIN self.short_to_url})

----------------------------------------------------------------------------
(* The statistics of a call as exact numbers.  Every rate is a fraction    *)
(* over the common denominator of the minutes' record counts, and every    *)
(* comparison of a deviation with sensitivity * standard deviation is a    *)
(* comparison of squares, so that no rounding takes part.                  *)

RECURSIVE Gcd(_, _)
Gcd(a, b) == IF b = 0 THEN a ELSE Gcd(b, a % b)

\* the least common multiple of a set of positive integers
RECURSIVE Lcm(_)
Lcm(ns) ==
    IF ns = {} THEN 1
    ELSE LET n    == CHOOSE x \in ns : TRUE
             rest == Lcm(ns \ {n})
         IN  (n \div Gcd(n, rest)) * rest

\* a float as the fraction num/den of integers: m * 2^e in lowest terms
RECURSIVE Fraction(_, _)
Fraction(m, e) ==
    IF m # 0 /\ m % 2 = 0 /\ e < 0 THEN Fraction(m \div 2, e + 1)
    ELSE IF e >= 0 THEN [num |-> m * Pow2(e), den |-> 1]
    ELSE [num |-> m, den |-> Pow2(-e)]

\* sum of f over a finite set
RECURSIVE SumOver(_, _)
SumOver(f, keys) ==
    IF keys = {} THEN 0
    ELSE LET k == CHOOSE x \in keys : TRUE
         IN  f[k] + SumOver(f, keys \ {k})

\* value[a] is the value of minute a; true when the population standard
\* deviation of the values is > 0 and value[key] - mean > sensitivity * it.
\* With n minutes and d[a] = n * value[a] - sum of the values, that is
\* d[key] > 0 and n * d[key]^2 > sensitivity^2 * (sum of the d[a]^2).
ExactlyAbove(value, key, sensitivity) ==
    LET keys == DOMAIN value
        n    == Cardinality(keys)
        sum  == SumOver(value, keys)
        d    == [a \in keys |-> n * value[a] - sum]
        sq   == SumOver([a \in keys |-> d[a] * d[a]], keys)
        s    == Fraction(sensitivity.m, sensitivity.e)
    IN  /\ sq > 0
        /\ d[key] > 0
        /\ n * d[key] * d[key] * s.den * s.den > s.num * s.num * sq

\* the error rates of the minutes of ls, over their common denominator
ExactRates(ls) ==
    LET den == Lcm({Cardinality(InMinute(ls, a)) : a \in Minutes(ls)})
    IN  [a \in Minutes(ls) |->
            Cardinality(ErrorsInMinute(ls, a))
                * (den \div Cardinality(InMinute(ls, a)))]

\* the anomalies of one type that a result holds for one minute
ForMinute(anomalies, type, key) ==
    {k \in OfType(anomalies, type) : anomalies[k].time = key}

\* C23: detect_anomalies emits a high_error_rate anomaly for a minute bucket
\* exactly when the population standard deviation of the per-bucket error
\* rates is > 0 and the bucket's rate exceeds the unweighted mean of the
\* rates by more than sensitivity times that deviation; its severity is HIGH
\* when the bucket's rate is above 0.8 and MEDIUM otherwise (exactly 0.8
\* gives MEDIUM), and no bucket gets more than one.
C23_HighErrorRate ==
    (op = "detect_anomalies" /\ Len(logs) >= MinRecords) =>
        \A key \in Minutes(logs) :
            LET found == ForMinute(ret, "high_error_rate", key)
            IN  /\ Cardinality(found) <= 1
                /\ found # {} <=> ExactlyAbove(ExactRates(logs), key, args[1])
                /\ \A k \in found :
                      ret[k].severity =
                          IF 5 * Cardinality(ErrorsInMinute(logs, key))
                                 > 4 * Cardinality(InMinute(logs, key))
                          THEN "HIGH" ELSE "MEDIUM"


\* the position of the first record of a minute
FirstSeen(ls, key) ==
    CHOOSE i \in InMinute(ls, key) : \A j \in InMinute(ls, key) : i <= j

\* the k-th smallest member of a finite set of integers
Nth(S, k) == CHOOSE x \in S : Cardinality({y \in S : y < x}) = k - 1

\* the later records of the consecutive pairs more than GapLimit seconds apart
WideGaps(ls) ==
    {i \in 2..Len(ls) : ls[i].timestamp - ls[i - 1].timestamp > GapLimit}

BucketTypes == {"high_error_rate", "volume_spike"}

\* C24: in a result of detect_anomalies every high_error_rate and
\* volume_spike anomaly precedes every time_gap anomaly; the anomalies of
\* the buckets are grouped by bucket, the buckets in the order in which their
\* minutes first appear in the input, a bucket's high_error_rate immediately
\* before its volume_spike; the time_gap anomalies are in record order.
C24_AnomalyOrder ==
    op = "detect_anomalies" =>
        /\ \A i, j \in DOMAIN ret :
              (ret[i].type \in BucketTypes /\ ret[j].type = "time_gap") => i < j
        /\ \A i, j \in DOMAIN ret :
              (i < j /\ ret[i].type \in BucketTypes /\ ret[j].type \in BucketTypes)
                  => \/ FirstSeen(logs, ret[i].time) < FirstSeen(logs, ret[j].time)
                     \/ /\ ret[i].time = ret[j].time
                        /\ ret[i].type = "high_error_rate"
                        /\ ret[j].type = "volume_spike"
                        /\ j = i + 1
        /\ LET gaps == OfType(ret, "time_gap")
           IN  \A k \in 1..Cardinality(gaps) :
                  /\ k <= Cardinality(WideGaps(logs))
                  /\ ret[Nth(gaps, k)].time = logs[Nth(WideGaps(logs), k)].timestamp
                  /\ ret[Nth(gaps, k)].gap_seconds =
                         logs[Nth(WideGaps(logs), k)].timestamp
                             - logs[Nth(WideGaps(logs), k) - 1].timestamp

\* C24 witness: a call whose minutes are not in chronological order and whose
\* result holds both anomalies of one bucket, a high_error_rate anomaly of a
\* bucket first seen later though earlier in time, and two time_gap anomalies
C24_Witness ==
    /\ op = "detect_anomalies"
    /\ \E i, j \in DOMAIN ret :
          /\ j > i + 1
          /\ ret[i].type = "high_error_rate"
          /\ ret[i + 1].type = "volume_spike"
          /\ ret[i + 1].time = ret[i].time
          /\ ret[j].type = "high_error_rate"
          /\ ret[j].time < ret[i].time
    /\ Cardinality(OfType(ret, "time_gap")) >= 2


\* the time_gap anomaly of the pair of records i - 1 and i
TimeGap(ls, i) ==
    [type |-> "time_gap",
     time |-> ls[i].timestamp,
     gap_seconds |-> ls[i].timestamp - ls[i - 1].timestamp,
     severity |-> "LOW"]

\* C25: on at least 5 records detect_anomalies emits exactly one time_gap
\* anomaly for each pair of consecutive records whose timestamps differ by
\* more than 300 seconds, with severity LOW, gap_seconds the difference and
\* time the later record's timestamp, and none for a pair 300 seconds or
\* less apart; the levels of the records play no role.
C25_TimeGaps ==
    (op = "detect_anomalies" /\ Len(logs) >= 5) =>
        LET gaps == OfType(ret, "time_gap")
            wide == {i \in 2..Len(logs) :
                        logs[i].timestamp - logs[i - 1].timestamp > 300}
        IN  /\ Cardinality(gaps) = Cardinality(wide)
            /\ \A k \in gaps : \E i \in wide : ret[k] = TimeGap(logs, i)
            /\ \A i \in wide :
                  Cardinality({k \in gaps : ret[k] = TimeGap(logs, i)})
                      = Cardinality({j \in wide : TimeGap(logs, j) = TimeGap(logs, i)})

\* C25 witness: a call on records with ERROR among them that holds a pair
\* exactly 300 seconds apart, a pair 301 seconds apart and a pair that steps
\* back in time, and returns a time_gap anomaly
C25_Witness ==
    /\ op = "detect_anomalies"
    /\ Len(logs) >= 5
    /\ \E i \in 1..Len(logs) : logs[i].level = "ERROR"
    /\ \E i \in 2..Len(logs) : logs[i].timestamp - logs[i - 1].timestamp = 300
    /\ \E i \in 2..Len(logs) : logs[i].timestamp - logs[i - 1].timestamp < 0
    /\ \E i \in 2..Len(logs) :
          /\ logs[i].timestamp - logs[i - 1].timestamp = 301
          /\ \E k \in OfType(ret, "time_gap") : ret[k] = TimeGap(logs, i)


\* the record counts of the minutes of ls
ExactCounts(ls) == [a \in Minutes(ls) |-> Cardinality(InMinute(ls, a))]

\* detect_anomalies with lines 168-171 moved in front of the loop over the
\* buckets: the volume statistics are computed once per call
RECURSIVE HoistedLoop(_, _, _, _, _, _, _, _)
HoistedLoop(buckets, k, mean_rate, std_dev, mean_volume, vol_std, sensitivity, anomalies) ==
    IF k > Len(buckets) THEN anomalies
    ELSE LET bucket == buckets[k]
             rate   == Rate(bucket)
             a1     == IF Exceeds(rate, mean_rate, sensitivity, std_dev)
                       THEN Append(anomalies, HighErrorRate(bucket, rate, mean_rate))
                       ELSE anomalies
             a2     == IF Exceeds(FromInt(bucket.total), mean_volume, sensitivity, vol_std)
                       THEN Append(a1, VolumeSpike(bucket, mean_volume))
                       ELSE a1
         IN  HoistedLoop(buckets, k + 1, mean_rate, std_dev, mean_volume, vol_std,
                         sensitivity, a2)

Hoisted(ls, sensitivity) ==
    IF TooFew(ls) THEN <<>>
    ELSE LET minute_buckets == BucketLoop(ls, 1, <<>>)
         IN  IF Len(minute_buckets) = 0 THEN <<>>
             ELSE LET error_rates  == [k \in 1..Len(minute_buckets) |->
                                          Rate(minute_buckets[k])]
                      mean_rate    == Mean(error_rates)
                      std_dev      == FSqrt(Variance(error_rates, mean_rate))
                      total_counts == [k \in 1..Len(minute_buckets) |->
                                          minute_buckets[k].total]
                      mean_volume  == FloatOf(IntSum(total_counts, 1), Len(total_counts))
                      vol_std      == FSqrt(Variance([k \in 1..Len(total_counts) |->
                                                         FromInt(total_counts[k])],
                                                     mean_volume))
                  IN  GapLoop(ls, 2,
                              HoistedLoop(minute_buckets, 1, mean_rate, std_dev,
                                          mean_volume, vol_std, sensitivity, <<>>))

\* C26: detect_anomalies emits a volume_spike anomaly for a minute bucket
\* exactly when the population standard deviation of the per-bucket record
\* counts is > 0 and the bucket's count exceeds the mean count by more than
\* sensitivity times that deviation; the severity is always MEDIUM; the
\* condition is one on the counts alone, whatever the levels; and computing
\* the volume statistics once per call gives the same result.
C26_VolumeSpike ==
    (op = "detect_anomalies" /\ Len(logs) >= MinRecords) =>
        /\ \A key \in Minutes(logs) :
              LET found == ForMinute(ret, "volume_spike", key)
              IN  /\ found # {} <=> ExactlyAbove(ExactCounts(logs), key, args[1])
                  /\ \A k \in found :
                        /\ ret[k].severity = "MEDIUM"
                        /\ ret[k].count = Cardinality(InMinute(logs, key))
        /\ ret = Hoisted(logs, args[1])


----------------------------------------------------------------------------
(* Expiry (C27), under SpecShortener                                       *)

\* the records of the calls that handed out a short URL
IssuedFor(short_url) == {i \in first.issued : i.short_url = short_url}

\* the short URL was handed out, and every time it was handed out it was to
\* expire and has expired by now
AllExpired(short_url) ==
    /\ IssuedFor(short_url) # {}
    /\ \A i \in IssuedFor(short_url) : ~IssuedAndValid(i)

\* the code is in none of the five collections
RemovedFrom(obj, short_code) ==
    /\ short_code \notin DOMAIN obj.short_to_url
    /\ \A u \in DOMAIN obj.url_to_short : obj.url_to_short[u] # short_code
    /\ short_code \notin DOMAIN obj.expiration
    /\ short_code \notin DOMAIN obj.analytics
    /\ short_code \notin obj.custom_codes

\* after an expand call: a short URL handed out without expires_in_hours, or
\* whose hours have not passed, expands to its URL, and expand returns a URL
\* only for a short URL handed out for it that has not expired
ExpandableUntilExpiry ==
    op = "expand" =>
        /\ \A i \in IssuedFor(args[1]) : IssuedAndValid(i) => ret = Returned(i.url)
        /\ ret.kind = "entry" =>
              \E i \in IssuedFor(args[1]) : IssuedAndValid(i) /\ i.url = ret.entry

\* an expand call on an expired short URL: the first raises 'Short URL has
\* expired!' and removes the code, every later one raises 'Short URL not
\* found!'
ExpandOfExpired ==
    (op' = "expand" /\ AllExpired(args'[1])) =>
        IF CodeIn(args'[1]) \in DOMAIN self.short_to_url
        THEN ret' = HasExpired /\ RemovedFrom(self', CodeIn(args'[1]))
        ELSE ret' = NotFound /\ self' = self

\* a shorten call that returns for a URL whose short URL has expired hands
\* out a fresh mapping: no clicks, the expiry this call asks for, and the
\* expired code removed unless it is handed out again
ShortenOfExpired ==
    \A old \in DOMAIN self.short_to_url :
        (Replaces(old) /\ ret'.kind = "entry") =>
            LET new == CodeIn(ret'.entry)
            IN  /\ self'.short_to_url[new] = args'[1]
                /\ self'.url_to_short[args'[1]] = new
                /\ self'.analytics[new] = [clicks |-> 0, timestamps |-> <<>>]
                /\ IF args'[3] = 0 THEN new \notin DOMAIN self'.expiration
                   ELSE self'.expiration[new] = clock + args'[3] * 3600
                /\ old # new => RemovedFrom(self', old)

\* C27: a short URL created with expires_in_hours = h can be expanded only
\* until h hours after its creation; the first expand after that raises
\* 'Short URL has expired!' and removes the code from short_to_url,
\* url_to_short, expiration, analytics and custom_codes, every later expand
\* raises 'Short URL not found!', and a shorten of the same URL after the
\* expiry makes a fresh mapping instead of returning the expired one; a short
\* URL created without expires_in_hours never expires.
C27_Expiry ==
    /\ []ExpandableUntilExpiry
    /\ [][ExpandOfExpired /\ ShortenOfExpired]_vars


----------------------------------------------------------------------------
(* The collections of a shortener agree (C28), under SpecShortener         *)

\* C28: after any sequence of shorten and expand calls on a shortener whose
\* collections were empty at the start, the keys of analytics are exactly
\* the keys of short_to_url, and the keys of expiration and the members of
\* custom_codes are among them: every live code has an analytics entry and
\* no removed code leaves an analytics, expiration or custom-code entry.
C28_CollectionsAgree ==
    /\ DOMAIN self.analytics = DOMAIN self.short_to_url
    /\ DOMAIN self.expiration \subseteq DOMAIN self.short_to_url
    /\ self.custom_codes \subseteq DOMAIN self.short_to_url

\* C28 witness: an expand has just removed the expired custom code aaa, which
\* had been handed out, while another code is live
C28_Witness ==
    /\ op = "expand"
    /\ ret = HasExpired
    /\ args[1] = self.base_url \o <<"a", "a", "a">>
    /\ IssuedFor(args[1]) # {}
    /\ RemovedFrom(self, <<"a", "a", "a">>)
    /\ DOMAIN self.short_to_url # {}

====
